---------------------------- MODULE Spec2Model ----------------------------
(***************************************************************************)
(* TransactionViewer: the rate-limited CoinGecko metadata queue            *)
(* (src/src/services/coingeckoService.js) and the Multicall3 batch reader  *)
(* (src/src/utils/blockchainUtils.js).                                     *)
(*                                                                         *)
(* JavaScript runs one handler at a time: every action below is one        *)
(* synchronous segment of the code, from one await point to the next.      *)
(***************************************************************************)
EXTENDS Integers, Sequences, FiniteSets, TLC

(***************************************************************************)
(* Bounds of the model.                                                    *)
(***************************************************************************)
\* number of fetchTokenData calls made over one run
MaxCalls == 2
\* number of HTTP 429 answers the remote service gives over one run
MaxThrottles == 1
\* milliseconds by which one Tick advances the clock
TickMs == 2500
\* number of calls in the batch given to makeMulticall
MaxBatch == 2
\* formatTokenBalance: digits of a balance before its trailing zeros
MaxSig == 2
\* formatTokenBalance: trailing zeros of a balance
MaxZeros == 21
\* formatTokenBalance: the largest decimals
MaxScale == 20
\* checkAllBalances: tokens listed for one holder
MaxTokens == 2
\* checkAllBalances: calls of a batch the node fails or answers with
\* bytes that do not decode
MaxBadCalls == 1
\* App: tokens the token-loading effect asks for
MaxAppTokens == 2
\* App: 429 responses
MaxAppThrottles == 1

(***************************************************************************)
(* Program constants (CoinGeckoService.constructor).                       *)
(***************************************************************************)
rateLimitDelay == 1000
retryDelay == 5000
\* App.processApiQueue: the pause after a request, the pause after a 429
AppDelay == 1000
AppRetryDelay == 5000

(***************************************************************************)
(* Values.                                                                 *)
(***************************************************************************)
\* Map.has(key) = false
Absent == "absent"
\* the JavaScript value null
Null == "null"
\* a promise that was not settled yet
Pending == "pending"
\* the token objects parseTokenData can return for one key: the remote
\* data (price, ...) may differ from one fetch to the next
Meta == {"meta1", "meta2"}

\* contract addresses as the callers write them, as sequences of characters
\* after the 0x prefix; the first two differ in case only
Addresses == { <<"A", "b">>, <<"a", "b">>, <<"c", "d">> }
\* the chain ids the callers pass: "1" is mapped, "5" is not
ChainIds == {"1", "5"}
\* the (contractAddress, chainId) arguments fetchTokenData is called with
Requests ==
    { <<a, "1">> : a \in Addresses } \cup { << <<"a", "b">>, "5" >> }

\* String.prototype.toLowerCase on one character
LowerChar(ch) ==
    CASE ch = "A" -> "a" [] ch = "B" -> "b" [] ch = "C" -> "c"
      [] ch = "D" -> "d" [] ch = "E" -> "e" [] ch = "F" -> "f"
      [] OTHER -> ch

\* String.prototype.toLowerCase
ToLowerCase(s) == [i \in DOMAIN s |-> LowerChar(s[i])]

\* getChainToPlatformMap(): chainId -> CoinGecko platform id
ChainToPlatformMap ==
    [c \in {"1", "56", "137", "43114", "250", "42161", "10", "369"} |->
        CASE c = "1" -> "ethereum"
          [] c = "56" -> "binance-smart-chain"
          [] c = "137" -> "polygon-pos"
          [] c = "43114" -> "avalanche"
          [] c = "250" -> "fantom"
          [] c = "42161" -> "arbitrum-one"
          [] c = "10" -> "optimistic-ethereum"
          [] c = "369" -> "pulsechain"]

\* mutant: the missing platform id is not checked
HasPlatformUnchecked(chainId) == TRUE

\* const platformId = this.getChainToPlatformMap()[chainId]; if (!platformId)
HasPlatform(chainId) == chainId \in DOMAIN ChainToPlatformMap

\* const cacheKey = `${chainId}-${contractAddress.toLowerCase()}`
CacheKey(chainId, contractAddress) == <<chainId, ToLowerCase(contractAddress)>>

Keys == { CacheKey(c, a) : c \in ChainIds, a \in Addresses }

CallIds == 1..MaxCalls

Min(a, b) == IF a < b THEN a ELSE b
Max(a, b) == IF a > b THEN a ELSE b

VARIABLES
    cache,              \* this.cache: key -> Absent, Null or a token object
    apiQueue,           \* this.apiQueue: { contractAddress, chainId, resolve }
    isProcessingQueue,  \* this.isProcessingQueue
    nextCall,           \* the id the next fetchTokenData call gets
    callAddress,        \* call -> the contractAddress it was given
    callChain,          \* call -> the chainId it was given
    result,             \* call -> Pending, or what its promise resolved with
    enqueued,           \* the calls that pushed an entry
    popped,             \* the calls whose entry was shifted off the queue
    loopPc,             \* call -> where the processApiQueue it invoked stands
    loopEntry,          \* call -> the entry its drain loop holds, or NoEntry
    loopTimer,          \* call -> ms left on the setTimeout its loop awaits
    fetches,            \* call -> number of fetch(url) issued for its entry,
                        \* counted up to MaxThrottles + 1
    lastResponse,       \* call -> the last answer to a fetch for its entry
    throttles,          \* number of 429 answers so far
    writes,             \* key -> number of cache.set(key, ...) so far
    sinceEnd,           \* ms since the last fetch ended (capped at retryDelay)
    lastEnd,            \* how the last fetch ended: "none", "done", "throttled"
    retryOwed,          \* the entry whose 429 was not retried yet (0: none)
    failedKeys,         \* keys whose fetch failed, no clearCache() since
    mcPc,               \* makeMulticall: "idle", "awaiting", "returned", "thrown"
    mcArgs,             \* makeMulticall: rpcUrl, multicallAddress, calls
    mcRequest,          \* makeMulticall: what was submitted to tryAggregate
    mcNode,             \* makeMulticall: what tryAggregate resolved with
    mcReturn,           \* makeMulticall: the object it returned
    mcError,            \* makeMulticall: the message of the Error it threw
    emPc,               \* executeMulticall: "idle", "awaiting", "returned", "error"
    emConfig,           \* executeMulticall: the multicall state it read
    emRequest,          \* executeMulticall: what went to tryBlockAndAggregate
    emResults,          \* executeMulticall: decodedResults
    fmtBalance,         \* formatTokenBalance: the balance it was given
    fmtDecimals,        \* formatTokenBalance: the decimals it was given
    fmtEthers,          \* formatTokenBalance: window.ethers.BigNumber is there
    fmtOut,             \* formatTokenBalance: the string it returned
    cbPc,               \* checkAllBalances: "idle", "awaiting", "done", "error"
    cbConfig,           \* checkAllBalances: eoaData, the holders of the one RPC
    cbCalls,            \* checkAllBalances: allCalls
    cbTokenInfoMap,     \* checkAllBalances: tokenInfoMap
    cbMetadata,         \* checkAllBalances: callMetadata
    cbResults,          \* checkAllBalances: what setResults was given
    cbError,            \* checkAllBalances: what setError was given
    tbPc,               \* checkBalances: "idle", "awaiting", "done", "error"
    tbConfig,           \* checkBalances: the page state it read
    tbChain,            \* checkBalances: position in Object.entries(tokensByChain)
    tbMetadata,         \* checkBalances: chainCallMetadata of the awaited batch
    tbAll,              \* checkBalances: allResults
    tbBalanceResults,   \* checkBalances: what setBalanceResults was given
    tbError,            \* checkBalances: what setError was given
    tbSubmitted,        \* checkBalances: the chains whose batch went to makeMulticall
    appQueue,           \* App: apiQueue, the entries waiting
    appProcessing,      \* App: the isProcessingQueue state as last set
    appCache,           \* App: the tokens that are keys of tokenCache
    appLoaded,          \* App: how many tokens the effect has asked for
    appLoop,            \* App: drain loop started by a token's call -> its position
    appEntry,           \* App: drain loop -> the entry it holds
    appTimer,           \* App: drain loop -> ms left of its setTimeout
    appSince,           \* App: ms since the last fetch was issued, capped
    appMinGap,          \* App: least ms between two consecutive fetches, capped
    appThrottles,       \* App: 429 responses so far
    ptPc,               \* parseTokenData: "idle", "done"
    ptData,             \* parseTokenData: the response body it was given
    ptAddress,          \* parseTokenData: the contractAddress it was given
    ptOut               \* parseTokenData: the object it returned

queueVars == <<cache, apiQueue, isProcessingQueue, nextCall, callAddress,
               callChain, result, enqueued, popped, loopPc, loopEntry, loopTimer,
               fetches, lastResponse, throttles, writes, sinceEnd, lastEnd,
               retryOwed, failedKeys>>

multicallVars == <<mcPc, mcArgs, mcRequest, mcNode, mcReturn, mcError>>

\* Transfer page, executeMulticall
transferVars == <<emPc, emConfig, emRequest, emResults>>

\* formatTokenBalance: its last call
formatVars == <<fmtBalance, fmtDecimals, fmtEthers, fmtOut>>

\* checkAllBalances, one invocation
balanceVars == <<cbPc, cbConfig, cbCalls, cbTokenInfoMap, cbMetadata, cbResults,
                 cbError>>

\* TokenBalance page, checkBalances, one invocation
tokenBalanceVars == <<tbPc, tbConfig, tbChain, tbMetadata, tbAll, tbBalanceResults,
                      tbError, tbSubmitted>>

\* App page, the inline queue
appVars == <<appQueue, appProcessing, appCache, appLoaded, appLoop, appEntry,
             appTimer, appSince, appMinGap, appThrottles>>

\* parseTokenData: its last call
parseVars == <<ptPc, ptData, ptAddress, ptOut>>

\* the state outside the metadata queue and makeMulticall
pageVars == <<transferVars, formatVars, balanceVars, tokenBalanceVars, appVars,
              parseVars>>

\* what executeMulticall leaves alone
transferRest == <<queueVars, multicallVars, formatVars, balanceVars,
                  tokenBalanceVars, appVars, parseVars>>

\* what formatTokenBalance leaves alone
formatRest == <<queueVars, multicallVars, transferVars, balanceVars,
                tokenBalanceVars, appVars, parseVars>>

\* what checkAllBalances leaves alone, makeMulticall aside
balanceRest == <<queueVars, transferVars, formatVars, tokenBalanceVars, appVars,
                 parseVars>>

\* what checkBalances leaves alone, makeMulticall aside
tokenBalanceRest == <<queueVars, transferVars, formatVars, balanceVars, appVars,
                      parseVars>>

\* what the inline queue of App leaves alone
appRest == <<queueVars, multicallVars, transferVars, formatVars, balanceVars,
             tokenBalanceVars, parseVars>>

\* what parseTokenData leaves alone
parseRest == <<queueVars, multicallVars, transferVars, formatVars, balanceVars,
               tokenBalanceVars, appVars>>

vars == <<queueVars, multicallVars, pageVars>>

NoAddress == <<>>
\* no entry held: the loop is not between shift() and the end of an iteration
NoEntry == [contractAddress |-> NoAddress, chainId |-> "", resolve |-> 0]

\* no makeMulticall call yet
NoArgs == [rpcUrl |-> "", multicallAddress |-> "", calls |-> <<>>]
NoRequest == [requireSuccess |-> TRUE, calls |-> <<>>]
NoReturn == [results |-> <<>>, success |-> FALSE, totalCalls |-> 0,
             successfulCalls |-> 0]

\* checkBalances has read no page state yet
NoPage == [eoaAddresses |-> <<>>, tokensByChain |-> <<>>, multicallAddress |-> ""]

\* the tokens the effect of App asks for, in the order it meets them
AppTokens == 1..MaxAppTokens
\* no entry held by a drain loop
NoAppEntry == [contractAddress |-> 0, platformKnown |-> FALSE]

MulticallInit ==
    /\ mcPc = "idle"
    /\ mcArgs = NoArgs
    /\ mcRequest = NoRequest
    /\ mcNode = <<>>
    /\ mcReturn = NoReturn
    /\ mcError = ""

\* new CoinGeckoService()
QueueInit ==
    /\ cache = [k \in Keys |-> Absent]
    /\ apiQueue = <<>>
    /\ isProcessingQueue = FALSE
    /\ nextCall = 1
    /\ callAddress = [c \in CallIds |-> NoAddress]
    /\ callChain = [c \in CallIds |-> ""]
    /\ result = [c \in CallIds |-> Pending]
    /\ enqueued = {}
    /\ popped = {}
    /\ loopPc = [c \in CallIds |-> "none"]
    /\ loopEntry = [c \in CallIds |-> NoEntry]
    /\ loopTimer = [c \in CallIds |-> 0]
    /\ fetches = [c \in CallIds |-> 0]
    /\ lastResponse = [c \in CallIds |-> "none"]
    /\ throttles = 0
    /\ writes = [k \in Keys |-> 0]
    /\ sinceEnd = 0
    /\ lastEnd = "none"
    /\ retryOwed = 0
    /\ failedKeys = {}

\* the Transfer page before executeMulticall was invoked
NoConfig == [rpcUrl |-> "", multicallAddress |-> "", calls |-> <<>>]
TransferInit ==
    /\ emPc = "idle"
    /\ emConfig = NoConfig
    /\ emRequest = NoRequest
    /\ emResults = <<>>

\* formatTokenBalance was not called yet
FormatInit ==
    /\ fmtBalance = <<>>
    /\ fmtDecimals = 0
    /\ fmtEthers = FALSE
    /\ fmtOut = <<>>

\* checkAllBalances was not invoked yet
BalanceInit ==
    /\ cbPc = "idle"
    /\ cbConfig = <<>>
    /\ cbCalls = <<>>
    /\ cbTokenInfoMap = <<>>
    /\ cbMetadata = <<>>
    /\ cbResults = <<>>
    /\ cbError = ""

\* checkBalances was not invoked yet
TokenBalanceInit ==
    /\ tbPc = "idle"
    /\ tbConfig = NoPage
    /\ tbChain = 0
    /\ tbMetadata = <<>>
    /\ tbAll = <<>>
    /\ tbBalanceResults = <<>>
    /\ tbError = ""
    /\ tbSubmitted = <<>>

\* App mounted: tokenCache and apiQueue empty, isProcessingQueue false
AppInit ==
    /\ appQueue = <<>>
    /\ appProcessing = FALSE
    /\ appCache = {}
    /\ appLoaded = 0
    /\ appLoop = [t \in AppTokens |-> "none"]
    /\ appEntry = [t \in AppTokens |-> NoAppEntry]
    /\ appTimer = [t \in AppTokens |-> 0]
    /\ appSince = AppDelay
    /\ appMinGap = AppDelay
    /\ appThrottles = 0

\* the response body of a token: detail_platforms is a list of entries in
\* the order of Object.keys; an absent field, null and '' are <<>>, a number
\* n is <<n>>
NoBody == [hasDetailPlatforms |-> FALSE, detail_platforms |-> <<>>,
           small |-> "", thumb |-> "", usd |-> <<>>]
\* no object returned yet
NoToken == [name |-> "", symbol |-> "", image |-> "", price |-> 0, decimals |-> 0,
            chainName |-> "", contractAddress |-> NoAddress]

\* parseTokenData was not called yet
ParseInit ==
    /\ ptPc = "idle"
    /\ ptData = NoBody
    /\ ptAddress = NoAddress
    /\ ptOut = NoToken

PageInit ==
    TransferInit /\ FormatInit /\ BalanceInit /\ TokenBalanceInit /\ AppInit
    /\ ParseInit

Init == QueueInit /\ MulticallInit /\ PageInit


(***************************************************************************)
(* processApiQueue                                                         *)
(***************************************************************************)
\* mutant: the guard forgets the isProcessingQueue flag
AlreadyProcessingNoFlag(processing, queue) == Len(queue) = 0

\* if (this.isProcessingQueue || this.apiQueue.length === 0) return;
AlreadyProcessing(processing, queue) == processing \/ Len(queue) = 0

\* mutant: the loop does not look at the cache before it fetches
PoppedNeverCached(ch, key) == FALSE

\* if (this.cache.has(cacheKey)) { resolve(this.cache.get(cacheKey)); continue; }
PoppedIsCached(ch, key) == ch[key] # Absent

\* resolve(value): settling a promise a second time changes nothing
Resolve(res, c, value) == IF res[c] = Pending THEN [res EXCEPT ![c] = value] ELSE res

\* this.cache.set(cacheKey, value)
CacheSet(ch, key, value) == [ch EXCEPT ![key] = value]

\* mutant: the throttled entry goes to the back of the queue
RequeueAtBack(queue, entry) == Append(queue, entry)

\* mutant: the throttled entry is dropped
RequeueDropped(queue, entry) == queue

\* mutant: the throttled entry is put back twice
RequeueTwice(queue, entry) == <<entry, entry>> \o queue

\* this.apiQueue.unshift({ contractAddress, chainId, resolve, reject })
Requeue(queue, entry) == <<entry>> \o queue

\* mutant: an entry whose key is already queued is not queued again
EnqueueDeduplicated(queue, entry) ==
    IF \E i \in 1..Len(queue) :
           CacheKey(queue[i].chainId, queue[i].contractAddress)
               = CacheKey(entry.chainId, entry.contractAddress)
    THEN queue
    ELSE Append(queue, entry)

\* mutant: a new entry goes to the front of the queue
EnqueueAtFront(queue, entry) == <<entry>> \o queue

\* this.apiQueue.push({ contractAddress, chainId, resolve, reject })
Enqueue(queue, entry) == Append(queue, entry)

\* mutant: the 429 pause uses the inter-request delay
BackoffTooShort == rateLimitDelay

\* await new Promise(resolve => setTimeout(resolve, this.retryDelay))
BackoffMs == retryDelay

\* await new Promise(resolve => setTimeout(resolve, this.rateLimitDelay))
InterRequestMs == rateLimitDelay

\* The while loop from its test to its next await: entries that are cached
\* or on an unmapped chain are resolved on the spot (continue, no delay);
\* the first other entry is fetched (stop = "fetch"); an empty queue ends
\* the loop (stop = "returned").
RECURSIVE Drain(_)
Drain(st) ==
    IF Len(st.q) = 0
    THEN [st EXCEPT !.stop = "returned", !.entry = NoEntry]
    ELSE LET e == Head(st.q)
             key == CacheKey(e.chainId, e.contractAddress)
             shifted == [st EXCEPT !.q = Tail(st.q),
                                   !.popped = st.popped \cup {e.resolve}]
         IN  IF PoppedIsCached(st.cache, key)
             THEN Drain([shifted EXCEPT
                            !.result = Resolve(st.result, e.resolve, st.cache[key])])
             ELSE IF ~HasPlatform(e.chainId)
             THEN Drain([shifted EXCEPT
                            !.cache = CacheSet(st.cache, key, Null),
                            !.writes = [st.writes EXCEPT ![key] = @ + 1],
                            !.result = Resolve(st.result, e.resolve, Null)])
             ELSE [shifted EXCEPT !.stop = "fetch", !.entry = e]

\* the shared state a drain works on
LoopState(queue) ==
    [q |-> queue, cache |-> cache, result |-> result, popped |-> popped,
     writes |-> writes, stop |-> "", entry |-> NoEntry]

\* mutant: the flag is not reset when the loop ends
FlagLeftSet == TRUE

\* this.isProcessingQueue = false, after the while loop
FlagOnReturn == FALSE

\* The loop of invocation L runs on from `st` to its next await, or returns.
RunLoop(L, st) ==
    LET d == Drain(st) IN
    /\ apiQueue' = d.q
    /\ cache' = d.cache
    /\ result' = d.result
    /\ popped' = d.popped
    /\ writes' = d.writes
    /\ loopEntry' = [loopEntry EXCEPT ![L] = d.entry]
    /\ loopTimer' = [loopTimer EXCEPT ![L] = 0]
    /\ IF d.stop = "fetch"
       THEN /\ loopPc' = [loopPc EXCEPT ![L] = "fetch"]
            /\ fetches' = [fetches EXCEPT ![d.entry.resolve] =
                                              Min(@ + 1, MaxThrottles + 1)]
            /\ isProcessingQueue' = TRUE
            /\ retryOwed' = 0
       ELSE /\ loopPc' = [loopPc EXCEPT ![L] = "returned"]
            /\ fetches' = fetches
            /\ isProcessingQueue' = FlagOnReturn
            /\ retryOwed' = retryOwed

(***************************************************************************)
(* fetchTokenData(contractAddress, chainId)                                *)
(***************************************************************************)
\* mutant: fetchTokenData does not look at the cache
CacheNeverHit(ch, key) == FALSE

\* if (this.cache.has(cacheKey)) return this.cache.get(cacheKey);
CacheHit(ch, key) == ch[key] # Absent

FetchTokenData(contractAddress, chainId) ==
    LET c == nextCall
        key == CacheKey(chainId, contractAddress)
        entry == [contractAddress |-> contractAddress, chainId |-> chainId,
                  resolve |-> c]
    IN
    /\ nextCall <= MaxCalls
    /\ UNCHANGED <<multicallVars, pageVars>>
    /\ nextCall' = nextCall + 1
    /\ callAddress' = [callAddress EXCEPT ![c] = contractAddress]
    /\ callChain' = [callChain EXCEPT ![c] = chainId]
    /\ UNCHANGED <<lastResponse, throttles, sinceEnd, lastEnd, failedKeys>>
    /\ IF CacheHit(cache, key)
       THEN /\ result' = [result EXCEPT ![c] = cache[key]]
            /\ UNCHANGED <<cache, apiQueue, isProcessingQueue, enqueued, popped,
                           loopPc, loopEntry, loopTimer, fetches, writes,
                           retryOwed>>
       ELSE /\ enqueued' = enqueued \cup {c}
            /\ IF AlreadyProcessing(isProcessingQueue, Enqueue(apiQueue, entry))
               THEN /\ apiQueue' = Enqueue(apiQueue, entry)
                    /\ loopPc' = [loopPc EXCEPT ![c] = "returned"]
                    /\ UNCHANGED <<cache, isProcessingQueue, result, popped,
                                   loopEntry, loopTimer, fetches, writes,
                                   retryOwed>>
               ELSE RunLoop(c, LoopState(Enqueue(apiQueue, entry)))

(***************************************************************************)
(* The awaits of the drain loop.                                           *)
(***************************************************************************)
\* the loops that are between `isProcessingQueue = true` and their return
ActiveLoops == { L \in CallIds : loopPc[L] \in {"fetch", "json", "backoff", "delay"} }

\* the loops whose fetch(url), or its body, is outstanding
InFlight == { L \in CallIds : loopPc[L] \in {"fetch", "json"} }

\* response.status === 429: requeue at the front, wait retryDelay, continue;
\* count is the number of 429 answers kept in `throttles`
Throttled(L, count) ==
    /\ loopPc[L] = "fetch"
    /\ UNCHANGED <<multicallVars, pageVars>>
    /\ throttles' = count
    /\ apiQueue' = Requeue(apiQueue, loopEntry[L])
    /\ loopPc' = [loopPc EXCEPT ![L] = "backoff"]
    /\ loopTimer' = [loopTimer EXCEPT ![L] = BackoffMs]
    /\ loopEntry' = [loopEntry EXCEPT ![L] = NoEntry]
    /\ lastResponse' = [lastResponse EXCEPT ![loopEntry[L].resolve] = "429"]
    /\ retryOwed' = loopEntry[L].resolve
    /\ sinceEnd' = 0
    /\ lastEnd' = "throttled"
    /\ UNCHANGED <<cache, isProcessingQueue, nextCall, callAddress, callChain,
                   result, enqueued, popped, fetches, writes, failedKeys>>

\* one of at most MaxThrottles 429 answers
Respond429(L) ==
    /\ throttles < MaxThrottles
    /\ Throttled(L, throttles + 1)

\* a 429 answer, however many came before: the count stops at MaxThrottles
RespondThrottled(L) == Throttled(L, Min(throttles + 1, MaxThrottles))

\* response.ok: await response.json()
RespondOk(L) ==
    /\ loopPc[L] = "fetch"
    /\ UNCHANGED <<multicallVars, pageVars>>
    /\ loopPc' = [loopPc EXCEPT ![L] = "json"]
    /\ lastResponse' = [lastResponse EXCEPT ![loopEntry[L].resolve] = "ok"]
    /\ UNCHANGED <<cache, apiQueue, isProcessingQueue, nextCall, callAddress,
                   callChain, result, enqueued, popped, loopEntry, loopTimer,
                   fetches, throttles, writes, sinceEnd, lastEnd, retryOwed,
                   failedKeys>>

\* mutant: a failed fetch leaves no cache entry
NegativeEntryMissing == Absent

\* this.cache.set(cacheKey, null) of the else branch and of the catch block
NegativeEntry == Null

\* The entry held by loop L ends: cache.set(cacheKey, cached), resolve(value)
\* and the inter-request setTimeout.
Settle(L, cached, value, response) ==
    LET e == loopEntry[L]
        key == CacheKey(e.chainId, e.contractAddress)
    IN
    /\ UNCHANGED <<multicallVars, pageVars>>
    /\ cache' = CacheSet(cache, key, cached)
    /\ failedKeys' = IF response = "failed" THEN failedKeys \cup {key}
                                            ELSE failedKeys \ {key}
    /\ writes' = [writes EXCEPT ![key] = @ + 1]
    /\ result' = Resolve(result, e.resolve, value)
    /\ loopPc' = [loopPc EXCEPT ![L] = "delay"]
    /\ loopTimer' = [loopTimer EXCEPT ![L] = InterRequestMs]
    /\ loopEntry' = [loopEntry EXCEPT ![L] = NoEntry]
    /\ lastResponse' = [lastResponse EXCEPT ![e.resolve] = response]
    /\ sinceEnd' = 0
    /\ lastEnd' = "done"
    /\ UNCHANGED <<apiQueue, isProcessingQueue, nextCall, callAddress, callChain,
                   enqueued, popped, fetches, throttles, retryOwed>>

\* a status that is neither 429 nor 2xx: the else branch
RespondHttpError(L) ==
    /\ loopPc[L] = "fetch"
    /\ Settle(L, NegativeEntry, Null, "failed")

\* fetch(url) rejects: the catch block
RespondNetworkError(L) ==
    /\ loopPc[L] = "fetch"
    /\ Settle(L, NegativeEntry, Null, "failed")

\* response.json() resolves and parseTokenData returns a token object
BodyParsed(L, tokenInfo) ==
    /\ loopPc[L] = "json"
    /\ Settle(L, tokenInfo, tokenInfo, "parsed")

\* response.json() rejects, or parseTokenData throws: the catch block
BodyThrows(L) ==
    /\ loopPc[L] = "json"
    /\ Settle(L, NegativeEntry, Null, "failed")

\* the setTimeout the loop awaits has run out: the loop goes on
TimerFires(L) ==
    /\ loopPc[L] \in {"backoff", "delay"}
    /\ loopTimer[L] = 0
    /\ UNCHANGED <<multicallVars, pageVars>>
    /\ RunLoop(L, LoopState(apiQueue))
    /\ UNCHANGED <<nextCall, callAddress, callChain, enqueued, lastResponse,
                   throttles, sinceEnd, lastEnd, failedKeys>>

\* TickMs milliseconds pass
Tick ==
    /\ UNCHANGED <<multicallVars, pageVars>>
    /\ sinceEnd' = Min(sinceEnd + TickMs, Max(retryDelay, rateLimitDelay))
    /\ loopTimer' = [L \in CallIds |-> Max(loopTimer[L] - TickMs, 0)]
    /\ UNCHANGED <<cache, apiQueue, isProcessingQueue, nextCall, callAddress,
                   callChain, result, enqueued, popped, loopPc, loopEntry,
                   fetches, lastResponse, throttles, writes, lastEnd, retryOwed,
                   failedKeys>>

(***************************************************************************)
(* clearCache()                                                            *)
(***************************************************************************)
ClearCache ==
    /\ UNCHANGED <<multicallVars, pageVars>>
    /\ cache' = [k \in Keys |-> Absent]
    /\ failedKeys' = {}
    /\ UNCHANGED <<apiQueue, isProcessingQueue, nextCall, callAddress, callChain,
                   result, enqueued, popped, loopPc, loopEntry, loopTimer,
                   fetches, lastResponse, throttles, writes, sinceEnd, lastEnd,
                   retryOwed>>

Next ==
    \/ \E r \in Requests : FetchTokenData(r[1], r[2])
    \/ \E L \in CallIds : Respond429(L)
    \/ \E L \in CallIds : RespondOk(L)
    \/ \E L \in CallIds : RespondHttpError(L)
    \/ \E L \in CallIds : RespondNetworkError(L)
    \/ \E L \in CallIds, m \in Meta : BodyParsed(L, m)
    \/ \E L \in CallIds : BodyThrows(L)
    \/ \E L \in CallIds : TimerFires(L)
    \/ Tick
    \/ ClearCache

Spec == Init /\ [][Next]_vars

\* the metadata queue when the service may answer 429 without end
NextUnbounded ==
    \/ \E r \in Requests : FetchTokenData(r[1], r[2])
    \/ \E L \in CallIds : RespondThrottled(L)
    \/ \E L \in CallIds : RespondOk(L)
    \/ \E L \in CallIds : RespondHttpError(L)
    \/ \E L \in CallIds : RespondNetworkError(L)
    \/ \E L \in CallIds, m \in Meta : BodyParsed(L, m)
    \/ \E L \in CallIds : BodyThrows(L)
    \/ \E L \in CallIds : TimerFires(L)
    \/ Tick
    \/ ClearCache

SpecUnbounded == Init /\ [][NextUnbounded]_vars

(***************************************************************************)
(* makeMulticall(rpcUrl, multicallAddress, calls)                          *)
(***************************************************************************)
\* a call descriptor without methodName (undefined)
NoMethod == ""
\* a call descriptor without abi (undefined)
NoAbi == "none"

\* the calls a batch is made of: those of createERC20BalanceCall and
\* createERC20InfoCalls carry the ERC20 ABI and a method name; a caller may
\* also give target and callData alone, or name a method the ABI lacks
Targets == {"tokenA", "tokenB"}
MethodsGiven ==
    { [abi |-> "erc20", methodName |-> "balanceOf"],
      [abi |-> "erc20", methodName |-> "mint"],
      [abi |-> NoAbi, methodName |-> "balanceOf"],
      [abi |-> NoAbi, methodName |-> NoMethod] }
CallDescriptors ==
    { [target |-> t, callData |-> "0x70a08231", abi |-> m.abi,
       methodName |-> m.methodName] : t \in Targets, m \in MethodsGiven }

\* the bytes a call returns: none, a well-formed word, bytes that are no
\* encoding of the output types
ReturnData == {"0x", "0x2a", "0xzz"}
NodeResults == [success : BOOLEAN, returnData : ReturnData]

\* the batches of at most n calls
Batches(n) == UNION { [1..k -> CallDescriptors] : k \in 0..n }

\* standardAbis.erc20: method name -> output types
Erc20Outputs(methodName) ==
    CASE methodName \in {"name", "symbol"} -> <<"string">>
      [] methodName = "decimals" -> <<"uint8">>
      [] methodName \in {"totalSupply", "balanceOf", "allowance"} -> <<"uint256">>
      [] OTHER -> <<>>

\* originalCall.abi.find(item => item.type === 'function' && item.name === methodName)
AbiHasMethod(abi, methodName) ==
    abi = "erc20" /\ methodName \in {"name", "symbol", "decimals", "totalSupply",
                                     "balanceOf", "allowance"}

\* the bytes that encode a value of the output types: a word holding a
\* small number, or the encoding of the string 'USDC'
Decodable(outputTypes) ==
    CASE outputTypes = <<"string">> -> {"0x55534443"}
      [] outputTypes = <<"uint8">> -> {"0x06", "0x12"}
      [] outputTypes = <<"uint256">> -> {"0x06", "0x12", "0x2a", "0x16e360"}
      [] OTHER -> {}

\* defaultAbiCoder.decode(outputTypes, returnData) throws on these bytes
DecodeThrows(outputTypes, returnData) == returnData \notin Decodable(outputTypes)

\* the value of an empty string in a condition: false
Truthy(str) == str # ""

\* one element of result.map((item, index) => ...): index counts from 0
ProcessResult(item, index, originalCall) ==
    LET decodes == /\ item.success
                   /\ Truthy(item.returnData)
                   /\ originalCall.abi # NoAbi
                   /\ Truthy(originalCall.methodName)
        outputs == Erc20Outputs(originalCall.methodName)
        decodedResult ==
            IF decodes
            THEN IF AbiHasMethod(originalCall.abi, originalCall.methodName)
                    /\ Len(outputs) > 0
                 THEN IF DecodeThrows(outputs, item.returnData)
                      THEN <<"Decode error", item.returnData>>
                      ELSE <<"decoded", item.returnData>>
                 ELSE <<"raw", item.returnData>>
            ELSE IF ~item.success
                 THEN <<"Call failed", item.returnData>>
                 ELSE <<"raw", item.returnData>>
    IN  [callIndex |-> index,
         target |-> originalCall.target,
         methodName |-> IF Truthy(originalCall.methodName)
                        THEN originalCall.methodName ELSE "unknown",
         success |-> item.success,
         result |-> decodedResult,
         rawData |-> item.returnData]

\* mutant: the entries the node failed are left out of the results
ProcessedResultsWithoutFailed(calls, nodeResult) ==
    LET all == [i \in 1..Len(nodeResult) |->
                   ProcessResult(nodeResult[i], i - 1, calls[i])]
    IN  SelectSeq(all, LAMBDA r : r.success)

\* const processedResults = result.map((item, index) => { ... })
ProcessedResults(calls, nodeResult) ==
    [i \in 1..Len(nodeResult) |-> ProcessResult(nodeResult[i], i - 1, calls[i])]

\* calls.map(call => ({ target: call.target, callData: call.callData }))
FormattedCalls(calls) ==
    [i \in 1..Len(calls) |-> [target |-> calls[i].target,
                              callData |-> calls[i].callData]]

\* processedResults.filter(r => r.success).length
SuccessfulCalls(results) == Len(SelectSeq(results, LAMBDA r : r.success))

\* mutant: the batch is submitted all-or-nothing
requireSuccessSet == TRUE

\* const requireSuccess = false
requireSuccess == FALSE

\* mutant: an empty calls list is let through
MissingParametersButCalls(rpcUrl, multicallAddress, calls) ==
    ~Truthy(rpcUrl) \/ ~Truthy(multicallAddress)

\* !rpcUrl || !multicallAddress || !calls || calls.length === 0
MissingParameters(rpcUrl, multicallAddress, calls) ==
    ~Truthy(rpcUrl) \/ ~Truthy(multicallAddress) \/ Len(calls) = 0

\* A call of makeMulticall up to its await, with fresh locals: the parameter
\* check throws, or the batch is submitted with
\* tryAggregate(requireSuccess = false, formattedCalls).
MakeMulticallFrom(rpcUrl, multicallAddress, calls) ==
    /\ UNCHANGED queueVars
    /\ mcArgs' = [rpcUrl |-> rpcUrl, multicallAddress |-> multicallAddress,
                  calls |-> calls]
    /\ mcReturn' = NoReturn
    /\ mcNode' = <<>>
    /\ IF MissingParameters(rpcUrl, multicallAddress, calls)
       THEN /\ mcPc' = "thrown"
            /\ mcError' = "Missing required parameters for multicall"
            /\ mcRequest' = NoRequest
       ELSE /\ mcPc' = "awaiting"
            /\ mcError' = ""
            /\ mcRequest' = [requireSuccess |-> requireSuccess,
                             calls |-> FormattedCalls(calls)]

\* The first call of a behaviour.
MakeMulticall(rpcUrl, multicallAddress, calls) ==
    /\ mcPc = "idle"
    /\ MakeMulticallFrom(rpcUrl, multicallAddress, calls)

\* mutant: a call the node failed aborts the batch (requireSuccess = true)
AggregateReturnsAllOrNothing(nodeResult) ==
    /\ mcPc = "awaiting"
    /\ Len(nodeResult) = Len(mcRequest.calls)
    /\ UNCHANGED <<queueVars, pageVars>>
    /\ mcNode' = nodeResult
    /\ IF \E i \in 1..Len(nodeResult) : ~nodeResult[i].success
       THEN /\ mcPc' = "thrown"
            /\ mcError' = "Multicall failed: "
            /\ mcReturn' = mcReturn
       ELSE /\ mcPc' = "returned"
            /\ mcError' = mcError
            /\ mcReturn' =
                LET processedResults == ProcessedResults(mcArgs.calls, nodeResult)
                IN  [results |-> processedResults,
                     success |-> TRUE,
                     totalCalls |-> Len(mcArgs.calls),
                     successfulCalls |-> SuccessfulCalls(processedResults)]
    /\ UNCHANGED <<mcArgs, mcRequest>>

\* tryAggregate resolves: Multicall3 returns one Result per submitted call
AggregateReturns(nodeResult) ==
    /\ mcPc = "awaiting"
    /\ Len(nodeResult) = Len(mcRequest.calls)
    /\ UNCHANGED <<queueVars, pageVars>>
    /\ mcPc' = "returned"
    /\ mcNode' = nodeResult
    /\ mcReturn' =
        LET processedResults == ProcessedResults(mcArgs.calls, nodeResult)
        IN  [results |-> processedResults,
             success |-> TRUE,
             totalCalls |-> Len(mcArgs.calls),
             successfulCalls |-> SuccessfulCalls(processedResults)]
    /\ UNCHANGED <<mcArgs, mcRequest, mcError>>

\* tryAggregate rejects (transport, RPC error): the catch block rethrows
AggregateFails ==
    /\ mcPc = "awaiting"
    /\ UNCHANGED <<queueVars, pageVars>>
    /\ mcPc' = "thrown"
    /\ mcError' = "Multicall failed: "
    /\ UNCHANGED <<mcArgs, mcRequest, mcNode, mcReturn>>

\* a caller of makeMulticall that is none of the modelled pages
CallMakeMulticall(rpcUrl, multicallAddress, calls) ==
    /\ MakeMulticall(rpcUrl, multicallAddress, calls)
    /\ UNCHANGED pageVars

MulticallNext ==
    \/ \E rpcUrl \in {"", "https://rpc"}, multicallAddress \in {"", "0xcA11"},
          calls \in Batches(MaxBatch) :
            CallMakeMulticall(rpcUrl, multicallAddress, calls)
    \/ \E k \in 1..MaxBatch : \E nodeResult \in [1..k -> NodeResults] :
            AggregateReturns(nodeResult)
    \/ AggregateFails

SpecMulticall == Init /\ [][MulticallNext]_vars

(***************************************************************************)
(* Transfer page: executeMulticall                                         *)
(***************************************************************************)
\* the sequences over S of length at most n
SeqsUpTo(S, n) == UNION { [1..k -> S] : k \in 0..n }

\* a configured call: contractAddress, abiType, methodName, and whether its
\* parameters encode (BigNumber.from and encodeFunctionData accept them)
ConfiguredCalls ==
    { [contractAddress |-> "tokenA", abiType |-> "erc20",
       methodName |-> "balanceOf", encodes |-> TRUE],
      [contractAddress |-> "tokenB", abiType |-> "erc20",
       methodName |-> NoMethod, encodes |-> TRUE],
      [contractAddress |-> "tokenB", abiType |-> "erc20",
       methodName |-> "balanceOf", encodes |-> FALSE] }

\* getMethod(abiType, methodName) finds a method
GetMethod(abiType, methodName) == AbiHasMethod(abiType, methodName)

\* the calls array built by the for loop: a call without method is skipped
BuiltCalls(configured) ==
    LET kept == SelectSeq(configured,
                          LAMBDA c : GetMethod(c.abiType, c.methodName))
    IN  [i \in 1..Len(kept) |-> [target |-> kept[i].contractAddress,
                                 callData |-> "0x70a08231"]]

\* building the calls throws: a kept call whose parameters do not encode
BuildThrows(configured) ==
    \E i \in 1..Len(configured) :
        /\ GetMethod(configured[i].abiType, configured[i].methodName)
        /\ ~configured[i].encodes

\* executeMulticall up to its await
ExecuteMulticall(multicall) ==
    /\ emPc = "idle"
    /\ emConfig' = multicall
    /\ emResults' = emResults
    /\ IF \/ ~Truthy(multicall.rpcUrl)
          \/ ~Truthy(multicall.multicallAddress)
          \/ Len(multicall.calls) = 0
          \/ BuildThrows(multicall.calls)
       THEN /\ emPc' = "error"
            /\ emRequest' = emRequest
       ELSE /\ emPc' = "awaiting"
            /\ emRequest' = [requireSuccess |-> FALSE,
                             calls |-> BuiltCalls(multicall.calls)]
    /\ UNCHANGED transferRest

\* one element of result.returnData.map((item, index) => ...)
DecodeReturnData(item, index, originalCall) ==
    LET outputs == Erc20Outputs(originalCall.methodName)
    IN  [callIndex |-> index + 1,
         success |-> item.success,
         returnData |->
             IF /\ item.success
                /\ GetMethod(originalCall.abiType, originalCall.methodName)
                /\ Len(outputs) > 0
             THEN IF DecodeThrows(outputs, item.returnData)
                  THEN <<"Error decoding", item.returnData>>
                  ELSE <<"decoded", item.returnData>>
             ELSE <<"raw", item.returnData>>]

\* tryBlockAndAggregate resolves with one Result per submitted call
BlockAndAggregateReturns(nodeResult) ==
    /\ emPc = "awaiting"
    /\ Len(nodeResult) = Len(emRequest.calls)
    /\ emPc' = "returned"
    /\ emResults' = [i \in 1..Len(nodeResult) |->
                        DecodeReturnData(nodeResult[i], i - 1, emConfig.calls[i])]
    /\ UNCHANGED <<emConfig, emRequest>>
    /\ UNCHANGED transferRest

\* tryBlockAndAggregate rejects: the catch block reports the error
BlockAndAggregateFails ==
    /\ emPc = "awaiting"
    /\ emPc' = "error"
    /\ UNCHANGED <<emConfig, emRequest, emResults>>
    /\ UNCHANGED transferRest

\* the batches and answers the two submitting functions are run on together
FlagCalls ==
    { c \in CallDescriptors : c.target = "tokenA" /\ c.abi = "erc20" }
FlagResults == { r \in NodeResults : r.returnData = "0x2a" }

\* makeMulticall and executeMulticall, each invoked once, in any interleaving
AggregatorsNext ==
    \/ \E rpcUrl \in {"", "https://rpc"}, calls \in SeqsUpTo(FlagCalls, MaxBatch) :
            CallMakeMulticall(rpcUrl, "0xcA11", calls)
    \/ \E nodeResult \in SeqsUpTo(FlagResults, MaxBatch) :
            AggregateReturns(nodeResult)
    \/ AggregateFails
    \/ \E rpcUrl \in {"", "https://rpc"},
          calls \in SeqsUpTo(ConfiguredCalls, MaxBatch) :
            ExecuteMulticall([rpcUrl |-> rpcUrl, multicallAddress |-> "0xcA11",
                              calls |-> calls])
    \/ \E nodeResult \in SeqsUpTo(FlagResults, MaxBatch) :
            BlockAndAggregateReturns(nodeResult)
    \/ BlockAndAggregateFails

SpecAggregators == Init /\ [][AggregatorsNext]_vars

TypeOK ==
    /\ cache \in [Keys -> {Absent, Null} \cup Meta]
    /\ isProcessingQueue \in BOOLEAN
    /\ nextCall \in 1..(MaxCalls + 1)
    /\ result \in [CallIds -> {Pending, Null} \cup Meta]
    /\ \A i \in DOMAIN apiQueue : apiQueue[i].resolve \in enqueued


(***************************************************************************)
(* formatTokenBalance(balance, decimals)                                   *)
(*                                                                         *)
(* A string is a sequence of its characters, each a one-character string;  *)
(* the message of an Error is one opaque element.  Arithmetic on balances  *)
(* is done on their decimal digits: dividing by 10^decimals splits the     *)
(* digit string, so no balance is cut to the width of a machine integer.   *)
(***************************************************************************)
Digits == {"0", "1", "2", "3", "4", "5", "6", "7", "8", "9"}
DigitChars == <<"0", "1", "2", "3", "4", "5", "6", "7", "8", "9">>

IsDigits(str) == Len(str) > 0 /\ \A i \in 1..Len(str) : str[i] \in Digits

\* '0'.repeat(n)
Zeros(n) == [i \in 1..n |-> "0"]

\* str.replace(/^0+/, '')
RECURSIVE StripLeadingZeros(_)
StripLeadingZeros(str) ==
    IF Len(str) > 0 /\ str[1] = "0" THEN StripLeadingZeros(Tail(str)) ELSE str

\* str.replace(/0+$/, '')
RECURSIVE StripTrailingZeros(_)
StripTrailingZeros(str) ==
    IF Len(str) > 0 /\ str[Len(str)] = "0"
    THEN StripTrailingZeros(SubSeq(str, 1, Len(str) - 1))
    ELSE str

\* the decimal string of a natural number, BigNumber.toString()
Canonical(digits) ==
    LET stripped == StripLeadingZeros(digits)
    IN  IF stripped = <<>> THEN <<"0">> ELSE stripped

\* n.toString() for a small natural number n
RECURSIVE NatToString(_)
NatToString(n) ==
    IF n < 10 THEN <<DigitChars[n + 1]>>
    ELSE NatToString(n \div 10) \o <<DigitChars[(n % 10) + 1]>>

\* value.div(10^decimals).toString(), value given by its digits
WholePart(digits, decimals) ==
    IF Len(digits) > decimals
    THEN Canonical(SubSeq(digits, 1, Len(digits) - decimals))
    ELSE <<"0">>

\* value.mod(10^decimals).toString().padStart(decimals, '0')
FractionPadded(digits, decimals) ==
    IF Len(digits) >= decimals
    THEN SubSeq(digits, Len(digits) - decimals + 1, Len(digits))
    ELSE Zeros(decimals - Len(digits)) \o digits

\* ethers.utils.formatUnits(value, decimals), i.e. formatFixed: the
\* fraction loses its trailing zeros but keeps one digit; no point and no
\* fraction for decimals = 0
FormatUnits(digits, decimals) ==
    LET stripped == StripTrailingZeros(FractionPadded(digits, decimals))
        fraction == IF stripped = <<>> THEN <<"0">> ELSE stripped
    IN  IF decimals = 0
        THEN WholePart(digits, decimals)
        ELSE WholePart(digits, decimals) \o <<".">> \o fraction

\* a Number keeps every decimal of at most this many significant digits:
\* parsing it and printing the double gives the same digits back
ExactDigits == 15
\* Number.prototype.toString prints positionally up to 10^21 ...
MaxPositional == 21
\* ... and down to 10^-6, and in exponent notation beyond
MinPositional == -6

\* n.toString() for the Number n = whole.fraction, of at most ExactDigits
\* significant digits: s are its significant digits, k their count, and
\* the value is 0.s * 10^n
NumberToString(whole, fraction) ==
    LET all == whole \o fraction
        lead == Len(all) - Len(StripLeadingZeros(all))
        s == StripTrailingZeros(StripLeadingZeros(all))
        k == Len(s)
        n == Len(whole) - lead
        e == n - 1
        exponent == IF e < 0 THEN <<"e", "-">> \o NatToString(0 - e)
                    ELSE <<"e", "+">> \o NatToString(e)
    IN  IF k = 0 THEN <<"0">>
        ELSE IF k <= n /\ n <= MaxPositional THEN s \o Zeros(n - k)
        ELSE IF 0 < n /\ n <= MaxPositional
             THEN SubSeq(s, 1, n) \o <<".">> \o SubSeq(s, n + 1, k)
        ELSE IF MinPositional < n /\ n <= 0
             THEN <<"0", ".">> \o Zeros(0 - n) \o s
        ELSE IF k = 1 THEN s \o exponent
        ELSE <<s[1], ".">> \o SubSeq(s, 2, k) \o exponent

\* the number of significant digits of the decimal whole.fraction
SignificantDigits(whole, fraction) ==
    Len(StripTrailingZeros(StripLeadingZeros(whole \o fraction)))

\* str.indexOf('.') counted from 1, 0 when there is none
PointAt(str) ==
    IF \E i \in 1..Len(str) : str[i] = "."
    THEN CHOOSE i \in 1..Len(str) :
             str[i] = "." /\ \A j \in 1..(i - 1) : str[j] # "."
    ELSE 0

\* parseFloat(formatted).toString(), formatted a decimal string of digits
\* with at most one point
ParseFloatToString(formatted) ==
    IF PointAt(formatted) = 0
    THEN NumberToString(formatted, <<>>)
    ELSE NumberToString(SubSeq(formatted, 1, PointAt(formatted) - 1),
                        SubSeq(formatted, PointAt(formatted) + 1, Len(formatted)))

\* the characters /["\s]/g removes
QuoteOrSpace == {"\"", " ", "\n", "\t"}

\* balanceStr.replace(/["\s]/g, '')
Cleaned(str) == SelectSeq(str, LAMBDA ch : ch \notin QuoteOrSpace)

\* balanceStr.startsWith('[') && balanceStr.endsWith(']')
Bracketed(str) == Len(str) > 0 /\ str[1] = "[" /\ str[Len(str)] = "]"

\* what the bracketed string becomes: JSON.parse reads a number and
\* String(parsed[0]) prints it; when JSON.parse throws (a number written
\* with leading zeros), /\[(\d+)\]/ takes the digits; any other content
\* leaves the string as it is
Unbracketed(str) ==
    LET inner == SubSeq(str, 2, Len(str) - 1)
    IN  IF ~IsDigits(inner) THEN str
        ELSE IF inner = Canonical(inner) THEN NumberToString(inner, <<>>)
        ELSE inner

\* BigNumber.from(str) and BigInt(str) throw on a string that is no number
NotANumber(str) == ~IsDigits(str)

\* the else branch: BigInt division and remainder by 10^decimals
BigIntFormat(digits, decimals) ==
    LET trimmedFractional == StripTrailingZeros(FractionPadded(digits, decimals))
    IN  IF trimmedFractional = <<>>
        THEN WholePart(digits, decimals)
        ELSE WholePart(digits, decimals) \o <<".">> \o trimmedFractional

\* formatTokenBalance(balance, decimals) for a string balance; hasEthers:
\* window.ethers && window.ethers.BigNumber
FormatTokenBalance(balance, decimals, hasEthers) ==
    LET cleaned == Cleaned(balance)
        balanceStr == IF Bracketed(cleaned) THEN Unbracketed(cleaned) ELSE cleaned
    IN  IF balance = <<>> \/ balance = <<"0">> THEN <<"0">>
        ELSE IF balanceStr = <<>> \/ balanceStr = <<"0">> THEN <<"0">>
        ELSE IF hasEthers
             THEN IF NotANumber(balanceStr)
                  THEN balance
                  ELSE ParseFloatToString(FormatUnits(Canonical(balanceStr), decimals))
             ELSE IF NotANumber(balanceStr)
                  THEN balanceStr
                  ELSE BigIntFormat(Canonical(balanceStr), decimals)

\* the balances formatTokenBalance is given: '0', and the numbers written
\* with at most MaxSig digits followed by at most MaxZeros zeros
SigDigits == {"0", "1", "5"}
Significands == { sig \in SeqsUpTo(SigDigits, MaxSig) : Len(sig) > 0 /\ sig[1] # "0" }
RawBalances ==
    {<<"0">>} \cup { sig \o Zeros(z) : sig \in Significands, z \in 0..MaxZeros }

\* the call of formatTokenBalance a run makes
FormatCall(balance, decimals, hasEthers) ==
    /\ fmtOut = <<>>
    /\ fmtBalance' = balance
    /\ fmtDecimals' = decimals
    /\ fmtEthers' = hasEthers
    /\ fmtOut' = FormatTokenBalance(balance, decimals, hasEthers)
    /\ UNCHANGED formatRest

FormatNext ==
    \E balance \in RawBalances, decimals \in 0..MaxScale, hasEthers \in BOOLEAN :
        FormatCall(balance, decimals, hasEthers)

SpecFormat == Init /\ [][FormatNext]_vars

(***************************************************************************)
(* checkAllBalances, for a configData of one RPC                           *)
(***************************************************************************)
\* the keys of eoaData, in the order of Object.entries
HolderNames == <<"0xH1", "0xH2">>
\* a key that is no address
BadHolder == "0xnope"
\* ethers.utils.isAddress(value)
IsAddress(value) == \E i \in 1..Len(HolderNames) : HolderNames[i] = value

\* eoaInfo.tokens: any list of token addresses, repeats included
TokenLists == SeqsUpTo(Targets, MaxTokens)

\* eoaData: up to Len(HolderNames) holders, the last key possibly no address
EoaDatas ==
    UNION { { [i \in 1..k |->
                 [eoaAddress |-> IF bad /\ i = k THEN BadHolder ELSE HolderNames[i],
                  tokens |-> tokensOf[i]]] :
              tokensOf \in [1..k -> TokenLists], bad \in BOOLEAN } :
            k \in 0..Len(HolderNames) }

\* the 4-byte selectors of standardAbis.erc20
Selector(methodName) ==
    CASE methodName = "name" -> "0x06fdde03"
      [] methodName = "symbol" -> "0x95d89b41"
      [] methodName = "decimals" -> "0x313ce567"
      [] methodName = "balanceOf" -> "0x70a08231"

\* generateCallData(standardAbis.erc20, methodName, parameters): the
\* selector followed by the encoded parameters
GenerateCallData(methodName, parameters) == <<Selector(methodName)>> \o parameters

\* mutant: the encoding of decimals() throws as well
GenerateThrowsOnDecimals(methodName, parameters) ==
    \/ methodName = "decimals"
    \/ \E i \in 1..Len(parameters) : ~IsAddress(parameters[i])

\* encodeFunctionData throws on an address parameter that is no address
GenerateThrows(methodName, parameters) ==
    \E i \in 1..Len(parameters) : ~IsAddress(parameters[i])

\* createERC20InfoCalls(tokenAddress): one call per method whose encoding
\* does not throw; a method whose encoding throws is only logged
CreateERC20InfoCalls(tokenAddress) ==
    LET Encodes(method) == ~GenerateThrows(method, <<>>)
        methods == SelectSeq(<<"name", "symbol", "decimals">>, Encodes)
    IN  [i \in 1..Len(methods) |->
            [target |-> tokenAddress,
             callData |-> GenerateCallData(methods[i], <<>>),
             abi |-> "erc20",
             methodName |-> methods[i],
             parameters |-> <<>>]]

\* createERC20BalanceCall(tokenAddress, holderAddress)
CreateERC20BalanceCall(tokenAddress, holderAddress) ==
    [target |-> tokenAddress,
     callData |-> GenerateCallData("balanceOf", <<holderAddress>>),
     abi |-> "erc20",
     methodName |-> "balanceOf",
     parameters |-> <<holderAddress>>]

\* the elements of a sequence in the order of their first occurrence: what
\* iterating a Set filled from the sequence yields
RECURSIVE SetOrder(_)
SetOrder(seq) ==
    IF seq = <<>> THEN <<>>
    ELSE LET init == SetOrder(SubSeq(seq, 1, Len(seq) - 1))
             last == seq[Len(seq)]
         IN  IF \E i \in 1..Len(init) : init[i] = last THEN init
             ELSE Append(init, last)

\* the (holder, token) entries of eoaData in the order of the nested loops
RECURSIVE Listed(_)
Listed(eoaData) ==
    IF eoaData = <<>> THEN <<>>
    ELSE LET init == Listed(SubSeq(eoaData, 1, Len(eoaData) - 1))
             last == eoaData[Len(eoaData)]
         IN  init \o [j \in 1..Len(last.tokens) |->
                         [eoaAddress |-> last.eoaAddress,
                          tokenAddress |-> last.tokens[j]]]

\* uniqueTokens, in iteration order
UniqueTokens(eoaData) ==
    SetOrder([i \in 1..Len(Listed(eoaData)) |-> Listed(eoaData)[i].tokenAddress])

\* allCalls after the info loop: three calls per unique token
RECURSIVE InfoCalls(_)
InfoCalls(tokens) ==
    IF tokens = <<>> THEN <<>>
    ELSE InfoCalls(SubSeq(tokens, 1, Len(tokens) - 1))
         \o CreateERC20InfoCalls(tokens[Len(tokens)])

\* tokenInfoMap: token -> the indices (from 0) recorded for its info calls
TokenInfoMap(tokens) ==
    [i \in 1..Len(tokens) |->
        LET startIndex == Len(InfoCalls(SubSeq(tokens, 1, i - 1)))
        IN  [tokenAddress |-> tokens[i],
             nameIndex |-> startIndex,
             symbolIndex |-> startIndex + 1,
             decimalsIndex |-> startIndex + 2]]

\* allCalls once the balance loop has run
AllCalls(eoaData) ==
    InfoCalls(UniqueTokens(eoaData))
    \o [i \in 1..Len(Listed(eoaData)) |->
           CreateERC20BalanceCall(Listed(eoaData)[i].tokenAddress,
                                  Listed(eoaData)[i].eoaAddress)]

\* callMetadata once the balance loop has run
CallMetadata(eoaData) ==
    [i \in 1..Len(Listed(eoaData)) |->
        [type |-> "balance",
         eoaAddress |-> Listed(eoaData)[i].eoaAddress,
         tokenAddress |-> Listed(eoaData)[i].tokenAddress,
         callIndex |-> Len(InfoCalls(UniqueTokens(eoaData))) + i - 1]]

\* the balance loop throws: a listed entry whose holder is no address
BalanceLoopThrows(eoaData) ==
    \E i \in 1..Len(Listed(eoaData)) :
        GenerateThrows("balanceOf", <<Listed(eoaData)[i].eoaAddress>>)

\* the decimal digits of the number a word holds
WordDigits(returnData) ==
    CASE returnData = "0x06" -> <<"6">>
      [] returnData = "0x12" -> <<"1", "8">>
      [] returnData = "0x2a" -> <<"4", "2">>
      [] returnData = "0x16e360" -> <<"1", "5", "0", "0", "0", "0", "0">>

\* formatResult(decoded), decoded the one-element Result of decode():
\* JSON.stringify(value, replacer, 2), where a uint8 is a number, a uint256
\* a BigNumber the replacer turns into a string, a string a string
FormatResult(outputTypes, returnData) ==
    CASE outputTypes = <<"string">> ->
             <<"[", "\n", " ", " ", "\"", "U", "S", "D", "C", "\"", "\n", "]">>
      [] outputTypes = <<"uint8">> ->
             <<"[", "\n", " ", " ">> \o WordDigits(returnData) \o <<"\n", "]">>
      [] outputTypes = <<"uint256">> ->
             <<"[", "\n", " ", " ", "\"">> \o WordDigits(returnData)
                 \o <<"\"", "\n", "]">>

\* the string held by the result field of a processed result
ResultText(processed) ==
    CASE processed.result[1] = "decoded" ->
             FormatResult(Erc20Outputs(processed.methodName), processed.result[2])
      [] processed.result[1] = "Decode error" ->
             <<"Decode error: ", "(Raw: ", processed.result[2], ")">>
      [] processed.result[1] = "Call failed" ->
             <<"Call failed (Raw: ", processed.result[2], ")">>
      [] processed.result[1] = "raw" -> <<processed.result[2]>>

\* null, and the empty string: both false in a condition
NoValue == <<>>

\* extractValue(multicallResults.results[index]): the result string of a
\* successful entry (it is no array and does not start with '0x'), null
\* for a missing or failed one
ExtractValue(results, index) ==
    IF index + 1 > Len(results) THEN NoValue
    ELSE IF ~results[index + 1].success THEN NoValue
    ELSE ResultText(results[index + 1])

\* the digits parseInt reads: leading white space skipped, then the longest
\* run of digits; none when the first character after it is no digit (NaN)
RECURSIVE DigitPrefix(_)
DigitPrefix(str) ==
    IF Len(str) > 0 /\ str[1] \in Digits
    THEN <<str[1]>> \o DigitPrefix(Tail(str))
    ELSE <<>>
RECURSIVE SkipSpace(_)
SkipSpace(str) ==
    IF Len(str) > 0 /\ str[1] \in {" ", "\n", "\t"} THEN SkipSpace(Tail(str)) ELSE str
ParseIntDigits(str) == DigitPrefix(SkipSpace(str))

\* the number written by a short digit string
RECURSIVE ToNat(_)
ToNat(digits) ==
    IF digits = <<>> THEN 0
    ELSE 10 * ToNat(SubSeq(digits, 1, Len(digits) - 1))
         + (CHOOSE d \in 0..9 : DigitChars[d + 1] = digits[Len(digits)])

\* the decimals a token gets when none can be read
DefaultDecimals == 18

\* decimalsValue ? parseInt(decimalsValue) || 18 : 18
DecimalsFrom(decimalsValue) ==
    IF decimalsValue = NoValue THEN DefaultDecimals
    ELSE IF ParseIntDigits(decimalsValue) = <<>> THEN DefaultDecimals
    ELSE IF ToNat(ParseIntDigits(decimalsValue)) = 0 THEN DefaultDecimals
    ELSE ToNat(ParseIntDigits(decimalsValue))

\* value || fallback
OrElse(value, fallback) == IF value = NoValue THEN fallback ELSE value

\* tokenInfoCache: one entry per entry of tokenInfoMap
TokenInfoCache(tokenInfoMap, results) ==
    [i \in 1..Len(tokenInfoMap) |->
        [tokenAddress |-> tokenInfoMap[i].tokenAddress,
         name |-> OrElse(ExtractValue(results, tokenInfoMap[i].nameIndex),
                         <<"Unknown">>),
         symbol |-> OrElse(ExtractValue(results, tokenInfoMap[i].symbolIndex),
                           <<"UNK">>),
         decimals |-> DecimalsFrom(ExtractValue(results,
                                                tokenInfoMap[i].decimalsIndex))]]

\* tokenInfoCache[tokenAddress] || { name: 'Unknown Token', ... }
TokenInfoOf(infoCache, tokenAddress) ==
    IF \E i \in 1..Len(infoCache) : infoCache[i].tokenAddress = tokenAddress
    THEN infoCache[CHOOSE i \in 1..Len(infoCache) : infoCache[i].tokenAddress = tokenAddress]
    ELSE [tokenAddress |-> tokenAddress, name |-> <<"Unknown Token">>,
          symbol |-> <<"UNK">>, decimals |-> DefaultDecimals]

\* the element of allResults pushed for one callMetadata entry
BalanceRecord(metadata, results, infoCache) ==
    LET tokenInfo == TokenInfoOf(infoCache, metadata.tokenAddress)
        ok == /\ metadata.callIndex + 1 <= Len(results)
              /\ results[metadata.callIndex + 1].success
        balance == IF ok THEN ResultText(results[metadata.callIndex + 1])
                   ELSE <<"0">>
    IN  [eoaAddress |-> metadata.eoaAddress,
         tokenAddress |-> metadata.tokenAddress,
         tokenName |-> tokenInfo.name,
         tokenSymbol |-> tokenInfo.symbol,
         tokenDecimals |-> tokenInfo.decimals,
         balance |-> balance,
         formattedBalance |->
             IF ok THEN FormatTokenBalance(balance, tokenInfo.decimals, TRUE)
             ELSE <<"0">>,
         status |-> IF ok THEN "success" ELSE "error",
         error |-> IF ok THEN "" ELSE "Balance call failed"]

\* checkAllBalances up to its await: the batch is built and handed to
\* makeMulticall, or building a balance call throws and the catch block
\* reports it
CheckAllBalances(eoaData) ==
    /\ cbPc = "idle"
    /\ cbConfig' = eoaData
    /\ cbResults' = <<>>
    /\ IF BalanceLoopThrows(eoaData)
       THEN /\ cbPc' = "error"
            /\ cbError' = "Error checking balances: "
            /\ UNCHANGED <<cbCalls, cbTokenInfoMap, cbMetadata>>
            /\ UNCHANGED multicallVars
       ELSE /\ cbPc' = "awaiting"
            /\ cbError' = ""
            /\ cbCalls' = AllCalls(eoaData)
            /\ cbTokenInfoMap' = TokenInfoMap(UniqueTokens(eoaData))
            /\ cbMetadata' = CallMetadata(eoaData)
            /\ MakeMulticall("https://rpc", "0xcA11", AllCalls(eoaData))
    /\ UNCHANGED balanceRest

\* makeMulticall has returned: token info is extracted and one record per
\* callMetadata entry goes to setResults
CheckAllBalancesResume ==
    /\ cbPc = "awaiting"
    /\ mcPc = "returned"
    /\ cbPc' = "done"
    /\ cbResults' =
        LET results == mcReturn.results
            infoCache == TokenInfoCache(cbTokenInfoMap, results)
        IN  [i \in 1..Len(cbMetadata) |->
                BalanceRecord(cbMetadata[i], results, infoCache)]
    /\ UNCHANGED <<cbConfig, cbCalls, cbTokenInfoMap, cbMetadata, cbError>>
    /\ UNCHANGED <<multicallVars, balanceRest>>

\* makeMulticall has thrown: the catch block reports the error
CheckAllBalancesCatch ==
    /\ cbPc = "awaiting"
    /\ mcPc = "thrown"
    /\ cbPc' = "error"
    /\ cbError' = "Error checking balances: "
    /\ UNCHANGED <<cbConfig, cbCalls, cbTokenInfoMap, cbMetadata, cbResults>>
    /\ UNCHANGED <<multicallVars, balanceRest>>

\* the chain: decimals() of each token, and the bytes a call returns
TokenDecimalsWord(tokenAddress) == IF tokenAddress = "tokenA" THEN "0x06" ELSE "0x12"
OkData(call) ==
    CASE call.methodName \in {"name", "symbol"} -> "0x55534443"
      [] call.methodName = "decimals" -> TokenDecimalsWord(call.target)
      [] call.methodName = "balanceOf" -> "0x16e360"

\* the sets of at most m of the indices 1..n
RECURSIVE AtMost(_, _)
AtMost(n, m) ==
    IF m = 0 THEN {{}}
    ELSE AtMost(n, m - 1)
         \cup { b \cup {i} : b \in AtMost(n, m - 1), i \in 1..n }

\* the answers of the node to a batch: at most MaxBadCalls calls are failed
\* or answered with no bytes, every other call returns its value
NodeAnswers(calls) ==
    UNION { { [i \in 1..Len(calls) |->
                 IF i \in failed THEN [success |-> FALSE, returnData |-> "0x"]
                 ELSE IF i \in bad THEN [success |-> TRUE, returnData |-> "0x"]
                 ELSE [success |-> TRUE, returnData |-> OkData(calls[i])]] :
              failed \in SUBSET bad } :
            bad \in AtMost(Len(calls), MaxBadCalls) }

BalancesNext ==
    \/ \E eoaData \in EoaDatas : CheckAllBalances(eoaData)
    \/ /\ mcPc = "awaiting"
       /\ \E nodeResult \in NodeAnswers(mcArgs.calls) : AggregateReturns(nodeResult)
    \/ AggregateFails
    \/ CheckAllBalancesResume
    \/ CheckAllBalancesCatch

SpecBalances == Init /\ [][BalancesNext]_vars

(***************************************************************************)
(* TokenBalance page: checkBalances                                        *)
(***************************************************************************)
\* a token as addToken stored it, with the decimals read when it was added
StoredToken(address) ==
    [id |-> address, address |-> address,
     decimals |-> IF address = "tokenA" THEN 6 ELSE 18]

\* tokensByChain[chainId]
ChainTokenLists ==
    { <<>>, <<StoredToken("tokenA")>>,
      <<StoredToken("tokenA"), StoredToken("tokenB")>> }

\* Object.entries(tokensByChain); hasRpc: chainsArray holds the chain and
\* the chain has an RPC URL
TokensByChains ==
    { << [chainId |-> "1", tokens |-> a, hasRpc |-> ra],
         [chainId |-> "369", tokens |-> b, hasRpc |-> rb] >> :
      a \in ChainTokenLists, b \in ChainTokenLists,
      ra \in BOOLEAN, rb \in BOOLEAN }

\* eoaAddresses: handleAddEoaAddress takes any non-empty text not yet listed
EoaLists ==
    { [i \in 1..k |->
          [id |-> i,
           address |-> IF bad /\ i = k THEN BadHolder ELSE HolderNames[i]]] :
      k \in 0..Len(HolderNames), bad \in BOOLEAN }

\* the multicallAddress field: the default, or emptied by the user
MulticallAddresses == {"0xcA11", ""}

\* the page state checkBalances reads
PageStates ==
    [eoaAddresses : EoaLists, tokensByChain : TokensByChains,
     multicallAddress : MulticallAddresses]

\* the three continue statements at the head of the chain loop do not apply
Processable(entry) == Len(entry.tokens) > 0 /\ entry.hasRpc

\* the first chain at or after position from whose batch is built, 0: none
NextChain(tokensByChain, from) ==
    LET candidates == { i \in from..Len(tokensByChain) : Processable(tokensByChain[i]) }
    IN  IF candidates = {} THEN 0
        ELSE CHOOSE i \in candidates : \A j \in candidates : i <= j

\* chainBalanceCalls: eoaAddresses.forEach(eoa => tokens.forEach(token => ...))
ChainBalanceCalls(eoaAddresses, tokens) ==
    [k \in 1..(Len(eoaAddresses) * Len(tokens)) |->
        CreateERC20BalanceCall(tokens[((k - 1) % Len(tokens)) + 1].address,
                               eoaAddresses[((k - 1) \div Len(tokens)) + 1].address)]

\* chainCallMetadata, pushed next to each call
ChainCallMetadata(eoaAddresses, tokens) ==
    [k \in 1..(Len(eoaAddresses) * Len(tokens)) |->
        LET eoa == eoaAddresses[((k - 1) \div Len(tokens)) + 1]
            token == tokens[((k - 1) % Len(tokens)) + 1]
        IN  [eoaId |-> eoa.id, eoaAddress |-> eoa.address,
             tokenId |-> token.id, token |-> token]]

\* mutant: a call is built whatever the holder address is
ChainCallsNeverThrow(calls) == FALSE

\* createERC20BalanceCall throws for one of the calls of the batch
ChainCallsThrow(calls) ==
    \E k \in 1..Len(calls) : GenerateThrows(calls[k].methodName, calls[k].parameters)

\* JSON.parse(text) does not throw: of the texts makeMulticall stores, the
\* ones formatResult wrote
JsonParses(text) == Len(text) > 0 /\ text[1] = "["

\* JSON.parse(text)[0] for the one-element array of a uint256: the
\* characters between the quotes
JsonFirst(text) ==
    LET Inside(c) == c \notin {"[", "]", "\n", " ", "\""}
    IN  SelectSeq(text, Inside)

\* the element of formattedResults made from one entry of result.results
FormattedResult(balanceResult, metadata) ==
    LET text == ResultText(balanceResult)
        balanceData == IF JsonParses(text) THEN JsonFirst(text) ELSE text
        balance == IF ~balanceResult.success \/ balanceData = <<>>
                   THEN <<"0">> ELSE balanceData
    IN  [eoaId |-> metadata.eoaId,
         eoaAddress |-> metadata.eoaAddress,
         tokenId |-> metadata.tokenId,
         token |-> metadata.token,
         rawBalance |-> balance,
         formattedBalance |->
             IF balanceResult.success
             THEN FormatTokenBalance(balance, metadata.token.decimals, TRUE)
             ELSE <<"0">>,
         success |-> balanceResult.success,
         error |-> IF balanceResult.success THEN "" ELSE "Failed to fetch balance"]

\* groupedResults
GroupedResults(eoaAddresses, allResults) ==
    [i \in 1..Len(eoaAddresses) |->
        LET Mine(r) == r.eoaId = eoaAddresses[i].id
        IN  [eoa |-> eoaAddresses[i], tokens |-> SelectSeq(allResults, Mine)]]

\* The chain loop from position from up to its next await: the batch of the
\* next chain is built and handed to makeMulticall, or building it throws
\* and the outer catch reports the error, or the loop is over and the
\* grouped results are stored.
ContinueChains(page, from, allResults) ==
    LET next == NextChain(page.tokensByChain, from)
        tokens == page.tokensByChain[next].tokens
        calls == ChainBalanceCalls(page.eoaAddresses, tokens)
    IN  /\ tbAll' = allResults
        /\ IF next = 0
           THEN /\ tbPc' = "done"
                /\ tbChain' = Len(page.tokensByChain) + 1
                /\ tbBalanceResults' = GroupedResults(page.eoaAddresses, allResults)
                /\ tbMetadata' = <<>>
                /\ UNCHANGED <<tbError, tbSubmitted>>
                /\ UNCHANGED multicallVars
           ELSE IF ChainCallsThrow(calls)
           THEN /\ tbPc' = "error"
                /\ tbChain' = next
                /\ tbError' = "Error checking balances: "
                /\ UNCHANGED <<tbBalanceResults, tbMetadata, tbSubmitted>>
                /\ UNCHANGED multicallVars
           ELSE /\ tbPc' = "awaiting"
                /\ tbChain' = next
                /\ tbMetadata' = ChainCallMetadata(page.eoaAddresses, tokens)
                /\ tbSubmitted' = Append(tbSubmitted, next)
                /\ UNCHANGED <<tbError, tbBalanceResults>>
                /\ MakeMulticallFrom("https://rpc", page.multicallAddress, calls)

\* sum of tokens.length over Object.values(tokensByChain)
AllTokensCount(tokensByChain) ==
    LET RECURSIVE Sum(_)
        Sum(i) == IF i = 0 THEN 0 ELSE Len(tokensByChain[i].tokens) + Sum(i - 1)
    IN  Sum(Len(tokensByChain))

\* checkBalances up to its first await or return
CheckBalances(page) ==
    /\ tbPc = "idle"
    /\ mcPc = "idle"
    /\ tbConfig' = page
    /\ IF Len(page.eoaAddresses) = 0
       THEN /\ tbPc' = "error"
            /\ tbError' = "Please add at least one EOA address"
            /\ UNCHANGED <<tbChain, tbMetadata, tbAll, tbBalanceResults, tbSubmitted>>
            /\ UNCHANGED multicallVars
       ELSE IF AllTokensCount(page.tokensByChain) = 0
       THEN /\ tbPc' = "error"
            /\ tbError' = "Please add at least one token to any chain"
            /\ UNCHANGED <<tbChain, tbMetadata, tbAll, tbBalanceResults, tbSubmitted>>
            /\ UNCHANGED multicallVars
       ELSE ContinueChains(page, 1, <<>>)
    /\ UNCHANGED tokenBalanceRest

\* makeMulticall has returned: the results of the chain are pushed and the
\* loop goes on
CheckBalancesResume ==
    /\ tbPc = "awaiting"
    /\ mcPc = "returned"
    /\ LET formattedResults ==
               [i \in 1..Len(mcReturn.results) |->
                   FormattedResult(mcReturn.results[i], tbMetadata[i])]
       IN  ContinueChains(tbConfig, tbChain + 1,
                          IF mcReturn.success THEN tbAll \o formattedResults
                          ELSE tbAll)
    /\ UNCHANGED tbConfig
    /\ UNCHANGED tokenBalanceRest

\* makeMulticall has thrown: the inner catch logs it and the loop goes on
CheckBalancesCatch ==
    /\ tbPc = "awaiting"
    /\ mcPc = "thrown"
    /\ ContinueChains(tbConfig, tbChain + 1, tbAll)
    /\ UNCHANGED tbConfig
    /\ UNCHANGED tokenBalanceRest

\* the answers of the node to a batch of balance calls: every call returns
\* its value, but for at most one the node fails or answers with no bytes
BalanceAnswers(calls) ==
    { [i \in 1..Len(calls) |->
          IF i = odd /\ failed THEN [success |-> FALSE, returnData |-> "0x"]
          ELSE IF i = odd THEN [success |-> TRUE, returnData |-> "0x"]
          ELSE [success |-> TRUE, returnData |-> OkData(calls[i])]] :
      odd \in 0..Len(calls), failed \in BOOLEAN }

TokenBalanceNext ==
    \/ \E page \in PageStates : CheckBalances(page)
    \/ /\ mcPc = "awaiting"
       /\ \E nodeResult \in BalanceAnswers(mcArgs.calls) : AggregateReturns(nodeResult)
    \/ AggregateFails
    \/ CheckBalancesResume
    \/ CheckBalancesCatch

SpecTokenBalance == Init /\ [][TokenBalanceNext]_vars

(***************************************************************************)
(* App page: the inline queue (processApiQueue, fetchTokenData, the        *)
(* token-loading effect)                                                   *)
(***************************************************************************)
\* the queue state a synchronous stretch of code works on
AppState ==
    [queue |-> appQueue, processing |-> appProcessing, cache |-> appCache,
     loop |-> appLoop, entry |-> appEntry, since |-> appSince,
     minGap |-> appMinGap]

\* the state st is stored
AppStore(st) ==
    /\ appQueue' = st.queue
    /\ appProcessing' = st.processing
    /\ appCache' = st.cache
    /\ appLoop' = st.loop
    /\ appEntry' = st.entry
    /\ appSince' = st.since
    /\ appMinGap' = st.minGap

\* The while loop of drain loop L up to its next await: cached entries are
\* resolved, entries of a chain without platform are cached as null, the
\* first other entry is fetched; on an empty queue the loop ends with
\* setIsProcessingQueue(false).
RECURSIVE AppDrain(_, _)
AppDrain(st, L) ==
    IF st.queue = <<>>
    THEN [st EXCEPT !.loop[L] = "done", !.entry[L] = NoAppEntry,
                    !.processing = FALSE]
    ELSE LET head == Head(st.queue)
             shifted == [st EXCEPT !.queue = Tail(st.queue)]
         IN  IF head.contractAddress \in st.cache
             THEN AppDrain(shifted, L)
             ELSE IF ~head.platformKnown
             THEN AppDrain([shifted EXCEPT !.cache = @ \cup {head.contractAddress}], L)
             ELSE [shifted EXCEPT !.loop[L] = "fetching", !.entry[L] = head,
                                  !.minGap = Min(@, st.since), !.since = 0]

\* if (isProcessingQueue || apiQueue.length === 0) return;
\* seen: isProcessingQueue, a constant of the render the closure belongs to
AppGuard(st, seen) == seen \/ st.queue = <<>>

\* processApiQueue() called for token L by a closure whose isProcessingQueue is seen
AppProcessApiQueue(st, L, seen) ==
    IF AppGuard(st, seen) THEN st
    ELSE AppDrain([st EXCEPT !.processing = TRUE], L)

\* fetchTokenData(contractAddress, chainId) up to the promise it returns
AppFetchTokenData(st, token, platformKnown, seen) ==
    IF token \in st.cache THEN st
    ELSE AppProcessApiQueue(
             [st EXCEPT !.queue = Append(@, [contractAddress |-> token,
                                             platformKnown |-> platformKnown])],
             token, seen)

\* allTokens.forEach(...) over the tokens first..last
RECURSIVE AppForEach(_, _, _, _, _)
AppForEach(st, first, last, platformKnown, seen) ==
    IF first > last THEN st
    ELSE AppForEach(AppFetchTokenData(st, first, platformKnown, seen),
                    first + 1, last, platformKnown, seen)

\* A render followed by its token-loading effect: a transaction with n new
\* tokens was loaded. Every closure of the render sees the
\* isProcessingQueue the render read.
LoadTokens(n, platformKnown) ==
    /\ appLoaded + n <= MaxAppTokens
    /\ appLoaded' = appLoaded + n
    /\ AppStore(AppForEach(AppState, appLoaded + 1, appLoaded + n, platformKnown,
                           appProcessing))
    /\ UNCHANGED <<appTimer, appThrottles>>
    /\ UNCHANGED appRest

\* fetch answers 429 to drain loop L: the entry goes back to the front and
\* the loop waits
AppRespond429(L) ==
    /\ appLoop[L] = "fetching"
    /\ appThrottles < MaxAppThrottles
    /\ appThrottles' = appThrottles + 1
    /\ appQueue' = <<appEntry[L]>> \o appQueue
    /\ appEntry' = [appEntry EXCEPT ![L] = NoAppEntry]
    /\ appLoop' = [appLoop EXCEPT ![L] = "waiting"]
    /\ appTimer' = [appTimer EXCEPT ![L] = AppRetryDelay]
    /\ UNCHANGED <<appProcessing, appCache, appLoaded, appSince, appMinGap>>
    /\ UNCHANGED appRest

\* fetch answers otherwise or fails: the token is cached, with its data or
\* with null, and the loop waits
AppRespond(L) ==
    /\ appLoop[L] = "fetching"
    /\ appCache' = appCache \cup {appEntry[L].contractAddress}
    /\ appEntry' = [appEntry EXCEPT ![L] = NoAppEntry]
    /\ appLoop' = [appLoop EXCEPT ![L] = "waiting"]
    /\ appTimer' = [appTimer EXCEPT ![L] = AppDelay]
    /\ UNCHANGED <<appQueue, appProcessing, appLoaded, appSince, appMinGap,
                   appThrottles>>
    /\ UNCHANGED appRest

\* the setTimeout of drain loop L fires: the while condition is read again
AppTimerFires(L) ==
    /\ appLoop[L] = "waiting"
    /\ appTimer[L] = 0
    /\ AppStore(AppDrain(AppState, L))
    /\ UNCHANGED <<appLoaded, appTimer, appThrottles>>
    /\ UNCHANGED appRest

\* TickMs milliseconds pass
AppTick ==
    /\ appSince' = Min(appSince + TickMs, AppDelay)
    /\ appTimer' = [L \in AppTokens |-> Max(appTimer[L] - TickMs, 0)]
    /\ UNCHANGED <<appQueue, appProcessing, appCache, appLoaded, appLoop, appEntry,
                   appMinGap, appThrottles>>
    /\ UNCHANGED appRest

AppNext ==
    \/ \E n \in 1..MaxAppTokens, platformKnown \in BOOLEAN : LoadTokens(n, platformKnown)
    \/ \E L \in AppTokens : AppRespond429(L)
    \/ \E L \in AppTokens : AppRespond(L)
    \/ \E L \in AppTokens : AppTimerFires(L)
    \/ AppTick

SpecApp == Init /\ [][AppNext]_vars

(***************************************************************************)
(* parseTokenData, one call                                                *)
(***************************************************************************)
\* the platform ids a response lists
PlatformKeys == {"ethereum", "pulsechain"}

\* detail_platforms[key]: the contract address as CoinGecko writes it, or
\* none, and the decimal_place, or none
PlatformEntries ==
    [key : PlatformKeys,
     contract_address : {NoAddress, <<"A", "b">>, <<"c", "d">>},
     decimal_place : {<<>>, <<0>>, <<6>>, <<18>>}]

\* detail_platforms: an object has each key once
DetailPlatforms ==
    { list \in UNION { [1..k -> PlatformEntries] : k \in 0..Cardinality(PlatformKeys) } :
          \A i, j \in DOMAIN list : i # j => list[i].key # list[j].key }

\* the response bodies: with or without detail_platforms, image.small,
\* image.thumb and market_data.current_price.usd
Bodies ==
    { [hasDetailPlatforms |-> TRUE, detail_platforms |-> list,
       small |-> small, thumb |-> thumb, usd |-> usd] :
          list \in DetailPlatforms, small \in {"", "small.png"},
          thumb \in {"", "thumb.png"}, usd \in {<<>>, <<0>>, <<2>>} }
    \cup { [NoBody EXCEPT !.usd = <<2>>], NoBody }

\* let decimals = 18; // default fallback
FallbackDecimals == 18

\* platforms.find(...): the position of the first platform whose
\* contract_address is set and equals contractAddress in lower case, 0: none
FindPlatform(detail_platforms, contractAddress) ==
    LET matching == { i \in DOMAIN detail_platforms :
                        /\ detail_platforms[i].contract_address # NoAddress
                        /\ ToLowerCase(detail_platforms[i].contract_address)
                               = ToLowerCase(contractAddress) }
    IN  IF matching = {} THEN 0
        ELSE CHOOSE i \in matching : \A j \in matching : i <= j

\* data.detail_platforms[platform].decimal_place || 18
DecimalPlaceOr(decimal_place) ==
    IF decimal_place = <<>> \/ decimal_place[1] = 0 THEN FallbackDecimals
    ELSE decimal_place[1]

\* parseTokenData(data, contractAddress)
ParseTokenData(data, contractAddress) ==
    LET platform == IF data.hasDetailPlatforms
                    THEN FindPlatform(data.detail_platforms, contractAddress)
                    ELSE 0
    IN  [name |-> "Token",
         symbol |-> "TKN",
         image |-> IF data.small # "" THEN data.small ELSE data.thumb,
         price |-> IF data.usd = <<>> THEN 0 ELSE data.usd[1],
         decimals |-> IF platform # 0
                      THEN DecimalPlaceOr(data.detail_platforms[platform].decimal_place)
                      ELSE FallbackDecimals,
         chainName |-> IF platform # 0 THEN data.detail_platforms[platform].key
                       ELSE "",
         contractAddress |-> ToLowerCase(contractAddress)]

\* parseTokenData is called with the body of a 200 response and the
\* address of the entry
CallParseTokenData(data, contractAddress) ==
    /\ ptPc = "idle"
    /\ ptPc' = "done"
    /\ ptData' = data
    /\ ptAddress' = contractAddress
    /\ ptOut' = ParseTokenData(data, contractAddress)
    /\ UNCHANGED parseRest

ParseNext ==
    \E data \in Bodies, contractAddress \in Addresses :
        CallParseTokenData(data, contractAddress)

SpecParse == Init /\ [][ParseNext]_vars

(***************************************************************************)
(* Properties of the metadata queue.                                       *)
(***************************************************************************)
\* the cache key of call c
KeyOfCall(c) == CacheKey(callChain[c], callAddress[c])

\* the calls made so far
Made == 1..(nextCall - 1)

\* this step is a fetchTokenData call
IsCallStep == nextCall' = nextCall + 1

\* this step issues fetch(url) for the entry of call c
IssuesFetch(c) == fetches'[c] > fetches[c]

\* this step shifts the entry of call c off the queue for the first time
FirstPop(c) == c \in popped' /\ c \notin popped

\* C1: at most one metadata fetch is in flight and at most one
\* processApiQueue drain loop is active, in every reachable state.
C1_SingleWorker ==
    /\ Cardinality(InFlight) <= 1
    /\ Cardinality(ActiveLoops) <= 1

\* C1 witness: a call arrived while a fetch was in flight; its
\* processApiQueue returned at once and its entry waits in the queue.
C1_Witness ==
    \E L, c \in CallIds :
        /\ L # c
        /\ loopPc[L] \in {"fetch", "json"}
        /\ loopPc[c] = "returned"
        /\ \E i \in DOMAIN apiQueue : apiQueue[i].resolve = c

\* C2: after a 429 for entry k, k is at the front of apiQueue, and the next
\* fetch the queue issues is for k: no other entry is fetched before.
C2_RetryBeforeOthers ==
    [][ /\ (retryOwed' # 0 =>
               /\ Len(apiQueue') > 0
               /\ apiQueue'[1].resolve = retryOwed')
        /\ \A c \in CallIds : (IssuesFetch(c) /\ retryOwed # 0) => c = retryOwed
      ]_vars

\* C2 witness: entry k was fetched again after its 429 while another entry
\* was waiting behind it.
C2_Witness ==
    \E k \in CallIds :
        /\ fetches[k] = 2
        /\ loopPc[k] = "fetch"
        /\ loopEntry[k].resolve = k
        /\ Len(apiQueue) > 0

\* C3: a fetch never starts before rateLimitDelay has passed since the last
\* fetch ended in success or failure, nor before retryDelay has passed since
\* the last 429.
C3_OneFetchPerInterval ==
    [][ (\E c \in CallIds : IssuesFetch(c)) =>
            /\ (lastEnd = "done" => sinceEnd >= rateLimitDelay)
            /\ (lastEnd = "throttled" => sinceEnd >= retryDelay)
      ]_vars

\* C3 witness: the queue went idle after a fetch, and a later call started
\* a new drain whose fetch is in flight.
C3_Witness ==
    \E L \in CallIds :
        /\ L > 1
        /\ loopPc[L] = "fetch"
        /\ lastEnd = "done"

\* C4: entries are processed in the order they were appended: the entry of a
\* later call is not shifted off the queue (hence not fetched, not resolved)
\* before the entry of every earlier call is resolved.
C4_Fifo ==
    \A a, b \in enqueued :
        (a < b /\ b \in popped) => (a \in popped /\ result[a] # Pending)

\* C4 witness: two entries, the first throttled once and retried, both
\* resolved after a fetch of their own.
C4_Witness ==
    \E a, b \in enqueued :
        /\ a < b
        /\ fetches[a] = 2
        /\ fetches[b] >= 1
        /\ result[a] # Pending
        /\ result[b] # Pending

\* C5: a fetchTokenData call for a cached key returns the cached value,
\* appends no entry and issues no fetch.
C5_CacheHit ==
    [][ (IsCallStep /\ cache[CacheKey(callChain'[nextCall], callAddress'[nextCall])] # Absent) =>
            /\ result'[nextCall] =
                   cache[CacheKey(callChain'[nextCall], callAddress'[nextCall])]
            /\ apiQueue' = apiQueue
            /\ enqueued' = enqueued
            /\ fetches' = fetches
            /\ loopPc' = loopPc
            /\ cache' = cache
      ]_vars

\* C5 witness: a call written with upper-case digits was answered from the
\* cache: it pushed no entry and is resolved.
C5_Witness ==
    \E c \in Made :
        /\ c \notin enqueued
        /\ result[c] # Pending
        /\ callAddress[c] # ToLowerCase(callAddress[c])

\* C6 as stated: whatever the operation, a cached key keeps its value and
\* is not written again.
C6_NeverInvalidated ==
    [][ \A k \in Keys :
            cache[k] # Absent => (cache'[k] = cache[k] /\ writes'[k] = writes[k])
      ]_vars

\* C6 amended: every operation other than clearCache() leaves a cached key
\* in the cache with the same value and does not write it again;
\* clearCache() removes every entry.
C6_InsertOnceUntilCleared ==
    [][ \/ ClearCache
        \/ \A k \in Keys :
               cache[k] # Absent => (cache'[k] = cache[k] /\ writes'[k] = writes[k])
      ]_vars

\* C6 witness: two calls for one key; the key was written once, and the
\* second entry was resolved from the cache when it was shifted off.
C6_Witness ==
    \E a, b \in enqueued :
        /\ a < b
        /\ KeyOfCall(a) = KeyOfCall(b)
        /\ cache[KeyOfCall(a)] \in Meta
        /\ writes[KeyOfCall(a)] = 1
        /\ result[b] = cache[KeyOfCall(a)]

\* this step ends the fetch of call c in a failure other than 429
FetchFails(c) == lastResponse'[c] = "failed" /\ lastResponse[c] # "failed"

\* the keys for which a fetch has failed (other than by 429) at some point
EverFailed == { KeyOfCall(a) : a \in { b \in Made : lastResponse[b] = "failed" } }

\* what C7 says of a step, `failed` being the keys it holds to be null
C7_Step(failed) ==
    /\ \A c \in CallIds :
           FetchFails(c) => (cache'[KeyOfCall(c)] = Null /\ result'[c] = Null)
    /\ (IsCallStep /\ CacheKey(callChain'[nextCall], callAddress'[nextCall]) \in failed) =>
           /\ result'[nextCall] = Null
           /\ fetches' = fetches
           /\ apiQueue' = apiQueue

\* C7 as stated: a failure other than 429 caches null and resolves null,
\* and every later fetchTokenData for the key resolves null with no fetch.
C7_FailureIsPermanent ==
    [][ C7_Step(EverFailed) ]_vars

\* the keys whose fetch failed with no clearCache() since
FailedNotCleared == failedKeys

\* C7 amended: a failure other than 429 caches null and resolves null, and
\* every later fetchTokenData for the key made before the next clearCache()
\* resolves null with no fetch.
C7_FailureCachedUntilCleared ==
    [][ C7_Step(FailedNotCleared) ]_vars

\* C7 witness: a fetch failed, and a later call for the same key was
\* resolved null without an entry of its own.
C7_Witness ==
    \E a, b \in Made :
        /\ a < b
        /\ lastResponse[a] = "failed"
        /\ KeyOfCall(a) = KeyOfCall(b)
        /\ b \notin enqueued
        /\ result[b] = Null

\* C8: a 429 is not surfaced: the step that receives it resolves nothing,
\* leaves the cache alone and keeps the entry in the queue; a resolved
\* caller's last answer is never a 429.
C8_ThrottleNotSurfaced ==
    [][ /\ \A c \in CallIds :
               (throttles' > throttles /\ retryOwed' = c) =>
                   /\ result' = result
                   /\ result'[c] = Pending
                   /\ cache' = cache
                   /\ \E i \in DOMAIN apiQueue' : apiQueue'[i].resolve = c
        /\ \A c \in CallIds : result'[c] # Pending => lastResponse'[c] # "429"
      ]_vars

\* C8 witness: a call that was throttled once is resolved by its second
\* attempt.
C8_Witness ==
    \E c \in CallIds :
        /\ fetches[c] = 2
        /\ result[c] # Pending
        /\ throttles >= 1

\* C9: an entry on a chain without a platform id is never fetched; the step
\* that shifts it off caches null, resolves null and starts no timer.
C9_UnmappedChain ==
    [][ \A c \in CallIds :
            (c \in Made' /\ ~(callChain'[c] \in DOMAIN ChainToPlatformMap)) =>
                /\ fetches'[c] = 0
                /\ (result'[c] # Pending => result'[c] = Null)
                /\ FirstPop(c) =>
                       /\ cache'[CacheKey(callChain'[c], callAddress'[c])] = Null
                       /\ result'[c] = Null
                       /\ \A L \in CallIds : loopPc'[L] \notin {"backoff", "delay"}
      ]_vars

\* C9 witness: an entry on an unmapped chain waited behind another entry
\* and was then resolved null.
C9_Witness ==
    \E c \in popped :
        /\ c > 1
        /\ ~(callChain[c] \in DOMAIN ChainToPlatformMap)
        /\ result[c] = Null
        /\ fetches[c] = 0

(***************************************************************************)
(* Properties of makeMulticall.                                            *)
(***************************************************************************)
\* what C10 says of a returned batch, names[i] being the methodName it
\* expects of results[i]
C10_Positional(names) ==
    mcPc = "returned" =>
        LET calls == mcArgs.calls
            results == mcReturn.results
        IN  /\ Len(results) = Len(calls)
            /\ mcReturn.totalCalls = Len(calls)
            /\ \A i \in 1..Len(results) :
                   /\ results[i].callIndex = i - 1
                   /\ results[i].target = calls[i].target
                   /\ results[i].methodName = names[i]
                   /\ results[i].success = mcNode[i].success

\* the success flags of the returned results, in order
ReturnedFlags == [i \in 1..Len(mcReturn.results) |-> mcReturn.results[i].success]

\* C10 as stated: N results, results[i] carries callIndex i (counted from
\* 0), the target and the methodName of calls[i] and the success flag the
\* node gave call i; totalCalls = N.
C10_MethodNameOfCall ==
    C10_Positional([i \in 1..Len(mcArgs.calls) |-> mcArgs.calls[i].methodName])

\* C10 amended: as stated, but the methodName of results[i] is 'unknown'
\* when calls[i] has no methodName.
C10_PositionalResults ==
    C10_Positional([i \in 1..Len(mcArgs.calls) |->
                       IF mcArgs.calls[i].methodName = NoMethod
                       THEN "unknown" ELSE mcArgs.calls[i].methodName])

\* C10 witness: a batch of two calls came back with the first call failed
\* at the node and the second successful.
C10_Witness ==
    /\ mcPc = "returned"
    /\ Len(mcReturn.results) = 2
    /\ ReturnedFlags = <<FALSE, TRUE>>
    /\ mcNode[1].success = FALSE
    /\ mcReturn.results[2].callIndex = 1
    /\ mcReturn.results[1].target # mcReturn.results[2].target


\* the node gave call i success and bytes that makeMulticall decodes
DecodesAt(i) ==
    /\ mcNode[i].success
    /\ AbiHasMethod(mcArgs.calls[i].abi, mcArgs.calls[i].methodName)
    /\ ~DecodeThrows(Erc20Outputs(mcArgs.calls[i].methodName), mcNode[i].returnData)

\* C11: a call the node reports as failed never makes makeMulticall throw
\* (it throws only where the node gave no answer); its entry has success =
\* false, the reason 'Call failed' and the raw bytes in rawData, and every
\* sibling entry whose bytes decode is returned decoded.
C11_FailedCallIsData ==
    /\ mcPc = "thrown" => mcNode = <<>>
    /\ mcPc = "returned" =>
           /\ Len(mcReturn.results) = Len(mcNode)
           /\ \A i \in 1..Len(mcNode) :
                  ~mcNode[i].success =>
                      /\ mcReturn.results[i].success = FALSE
                      /\ mcReturn.results[i].result =
                             <<"Call failed", mcNode[i].returnData>>
                      /\ mcReturn.results[i].rawData = mcNode[i].returnData
                      /\ \A j \in 1..Len(mcNode) :
                             DecodesAt(j) =>
                                 /\ mcReturn.results[j].success
                                 /\ mcReturn.results[j].result =
                                        <<"decoded", mcNode[j].returnData>>

\* C11 witness: a batch of two came back, the first call failed at the
\* node with bytes of its own, the second decoded.
C11_Witness ==
    /\ mcPc = "returned"
    /\ Len(mcNode) = 2
    /\ ~mcNode[1].success
    /\ mcNode[1].returnData = "0xzz"
    /\ mcReturn.results[1].rawData = "0xzz"
    /\ DecodesAt(2)
    /\ mcReturn.results[2].result[1] = "decoded"

\* the node gave call i success and bytes that makeMulticall fails to decode
DecodeFailsAt(i) ==
    /\ mcNode[i].success
    /\ Truthy(mcNode[i].returnData)
    /\ AbiHasMethod(mcArgs.calls[i].abi, mcArgs.calls[i].methodName)
    /\ DecodeThrows(Erc20Outputs(mcArgs.calls[i].methodName), mcNode[i].returnData)

\* C12 as stated: an entry whose decoding raises does not make
\* makeMulticall throw; it carries the reason 'Decode error' and the raw
\* bytes, has success = false and is not counted in successfulCalls.
C12_DecodeErrorIsFailure ==
    /\ mcPc = "thrown" => mcNode = <<>>
    /\ mcPc = "returned" =>
           /\ \A i \in 1..Len(mcNode) :
                  DecodeFailsAt(i) =>
                      /\ mcReturn.results[i].result =
                             <<"Decode error", mcNode[i].returnData>>
                      /\ mcReturn.results[i].rawData = mcNode[i].returnData
                      /\ mcReturn.results[i].success = FALSE
           /\ mcReturn.successfulCalls =
                  Cardinality({ i \in 1..Len(mcNode) :
                                  mcNode[i].success /\ ~DecodeFailsAt(i) })

\* C12 witness: an entry with a decode error came back with success = true
\* and is counted in successfulCalls.
C12_Witness ==
    /\ mcPc = "returned"
    /\ Len(mcNode) = 1
    /\ DecodeFailsAt(1)
    /\ mcReturn.results[1].result = <<"Decode error", "0xzz">>
    /\ mcReturn.results[1].success
    /\ mcReturn.successfulCalls = 1

\* C13: a rejected tryAggregate makes makeMulticall throw 'Multicall
\* failed: ...' with nothing returned; a call without rpcUrl, without
\* multicallAddress or with no calls throws with no batch submitted.
C13_BatchFailureThrows ==
    /\ mcPc = "thrown" => mcReturn = NoReturn
    /\ (mcPc = "thrown" /\ mcRequest # NoRequest) => mcError = "Multicall failed: "
    /\ (mcPc # "idle" /\ (mcArgs.rpcUrl = "" \/ mcArgs.multicallAddress = ""
                          \/ mcArgs.calls = <<>>)) =>
           /\ mcPc = "thrown"
           /\ mcRequest = NoRequest
           /\ mcNode = <<>>

\* C13 witness: a submitted batch of two was rejected.
C13_Witness ==
    /\ mcPc = "thrown"
    /\ Len(mcRequest.calls) = 2
    /\ mcError = "Multicall failed: "

\* C13 second witness: a call with rpcUrl and address but no calls threw.
C13_WitnessNoCalls ==
    /\ mcPc = "thrown"
    /\ mcArgs.rpcUrl # ""
    /\ mcArgs.multicallAddress # ""
    /\ mcArgs.calls = <<>>

(***************************************************************************)
(* Properties of the aggregator submissions.                               *)
(***************************************************************************)
\* C14: every step that submits a batch, makeMulticall's to tryAggregate
\* and executeMulticall's to tryBlockAndAggregate, passes false as the
\* first argument, and no other step touches a submitted request.
C14_NeverRequireSuccess ==
    [][ /\ mcRequest' # mcRequest =>
               (mcPc = "idle" /\ mcPc' = "awaiting" /\ ~mcRequest'.requireSuccess)
        /\ mcPc' = "awaiting" => ~mcRequest'.requireSuccess
        /\ emRequest' # emRequest =>
               (emPc = "idle" /\ emPc' = "awaiting" /\ ~emRequest'.requireSuccess)
        /\ emPc' = "awaiting" => ~emRequest'.requireSuccess
      ]_vars

\* C14 witness: both functions have submitted a batch of two calls.
C14_Witness ==
    /\ mcPc = "awaiting"
    /\ Len(mcRequest.calls) = 2
    /\ ~mcRequest.requireSuccess
    /\ emPc = "awaiting"
    /\ Len(emRequest.calls) = 2
    /\ ~emRequest.requireSuccess

(***************************************************************************)
(* Properties of formatTokenBalance.                                       *)
(***************************************************************************)
\* the exact decimal string of raw / 10^scale: whole part raw div 10^scale,
\* fraction raw mod 10^scale on scale digits without its trailing zeros,
\* neither point nor fraction when the remainder is zero
ExactDecimal(raw, scale) ==
    LET whole == IF Len(raw) > scale
                 THEN SubSeq(raw, 1, Len(raw) - scale) ELSE <<"0">>
        padded == IF Len(raw) >= scale
                  THEN SubSeq(raw, Len(raw) - scale + 1, Len(raw))
                  ELSE Zeros(scale - Len(raw)) \o raw
        fraction == StripTrailingZeros(padded)
    IN  IF fraction = <<>> THEN whole ELSE whole \o <<".">> \o fraction

\* formatTokenBalance has been called
Formatted == fmtOut # <<>>

\* C16 as stated: whatever the balance and the decimals, formatTokenBalance
\* returns the exact decimal string of balance / 10^decimals.
C16_ExactDecimalString ==
    Formatted => fmtOut = ExactDecimal(fmtBalance, fmtDecimals)

\* C16 witness: with ethers loaded, 1 at 7 decimals comes back as 1e-7.
C16_Witness ==
    /\ fmtEthers
    /\ fmtBalance = <<"1">>
    /\ fmtDecimals = 7
    /\ fmtOut = <<"1", "e", "-", "7">>

\* the part of a decimal string before its point
WholeOf(str) == IF PointAt(str) = 0 THEN str ELSE SubSeq(str, 1, PointAt(str) - 1)

\* C17 as stated: '0' gives '0' at every decimals; decimals = 0 gives the
\* balance unchanged; a balance of fewer digits than decimals gives a
\* string whose whole part is '0'.
C17_EdgeCases ==
    Formatted =>
        /\ fmtBalance = <<"0">> => fmtOut = <<"0">>
        /\ fmtDecimals = 0 => fmtOut = fmtBalance
        /\ Len(fmtBalance) < fmtDecimals => WholeOf(fmtOut) = <<"0">>

\* C17 witness: with ethers loaded, 10^21 at 0 decimals comes back as 1e+21.
C17_Witness ==
    /\ fmtEthers
    /\ fmtDecimals = 0
    /\ fmtBalance = <<"1">> \o Zeros(21)
    /\ fmtOut = <<"1", "e", "+", "2", "1">>

(***************************************************************************)
(* Properties of checkAllBalances.                                         *)
(***************************************************************************)
\* checkAllBalances has built its batch
BatchBuilt == cbPc # "idle" /\ ~BalanceLoopThrows(cbConfig)

\* the tokens and the (holder, token) pairs eoaData lists
TokensListed ==
    { cbConfig[h].tokens[j] : <<h, j>> \in
        { <<h, j>> \in (1..Len(cbConfig)) \X (1..MaxTokens) :
              j <= Len(cbConfig[h].tokens) } }
PairsListed ==
    { <<cbConfig[h].eoaAddress, cbConfig[h].tokens[j]>> : <<h, j>> \in
        { <<h, j>> \in (1..Len(cbConfig)) \X (1..MaxTokens) :
              j <= Len(cbConfig[h].tokens) } }

\* the method names of the info calls of the batch targeted at a token
InfoMethodsFor(tokenAddress) ==
    LET info == SelectSeq(cbCalls, LAMBDA c : c.target = tokenAddress
                                              /\ c.methodName # "balanceOf")
    IN  [i \in 1..Len(info) |-> info[i].methodName]

\* the positions of the balanceOf calls of the batch for a pair
BalanceCallsFor(pair) ==
    { i \in 1..Len(cbCalls) : /\ cbCalls[i].methodName = "balanceOf"
                              /\ cbCalls[i].parameters = <<pair[1]>>
                              /\ cbCalls[i].target = pair[2] }

\* C15 as stated: the batch holds the info calls name, symbol, decimals, in
\* that order and once, for each distinct token listed, one balanceOf call
\* for each (holder, token) pair listed, and nothing else.
C15_BatchLayout ==
    BatchBuilt =>
        /\ \A t \in TokensListed : InfoMethodsFor(t) = <<"name", "symbol", "decimals">>
        /\ \A pair \in PairsListed : Cardinality(BalanceCallsFor(pair)) = 1
        /\ Len(cbCalls) = 3 * Cardinality(TokensListed) + Cardinality(PairsListed)

\* C15 witness: one holder listing one token twice gives a batch of five
\* calls, the last two the same balanceOf call.
C15_Witness ==
    /\ BatchBuilt
    /\ Len(cbConfig) = 1
    /\ cbConfig[1].tokens = <<"tokenA", "tokenA">>
    /\ Len(cbCalls) = 5
    /\ cbCalls[4] = cbCalls[5]
    /\ cbCalls[5].methodName = "balanceOf"

\* the positions in the batch of the info calls and of the balance calls
InfoPositions == { i \in 1..Len(cbCalls) : cbCalls[i].methodName # "balanceOf" }
BalancePositions == { i \in 1..Len(cbCalls) : cbCalls[i].methodName = "balanceOf" }

\* the node answered every info call with success and bytes that decode,
\* and failed exactly one balance call
OneBalanceFailed ==
    /\ cbPc = "done"
    /\ \A i \in InfoPositions : mcNode[i].success /\ mcNode[i].returnData # "0x"
    /\ \A i \in BalancePositions : mcNode[i].success => mcNode[i].returnData # "0x"
    /\ Cardinality({ i \in BalancePositions : ~mcNode[i].success }) = 1

\* the decimals the node returned for the decimals() call of a token
OwnDecimals(tokenAddress) ==
    ToNat(WordDigits(mcNode[CHOOSE i \in InfoPositions :
                                /\ cbCalls[i].target = tokenAddress
                                /\ cbCalls[i].methodName = "decimals"].returnData))

\* C18 as stated: when every info call succeeds and exactly one balance
\* call fails, each record of a successful balance call is a success
\* formatted with the decimals returned by its token's decimals() call, the
\* record of the failed call is an error, and it is the only one.
C18_OwnDecimals ==
    OneBalanceFailed =>
        /\ Len(cbResults) = Len(cbMetadata)
        /\ \A k \in 1..Len(cbResults) :
               IF mcNode[cbMetadata[k].callIndex + 1].success
               THEN /\ cbResults[k].status = "success"
                    /\ cbResults[k].tokenDecimals = OwnDecimals(cbResults[k].tokenAddress)
                    /\ cbResults[k].formattedBalance =
                           FormatTokenBalance(cbResults[k].balance,
                                              OwnDecimals(cbResults[k].tokenAddress),
                                              TRUE)
               ELSE cbResults[k].status = "error"
        /\ Cardinality({ k \in 1..Len(cbResults) : cbResults[k].status = "error" }) = 1

\* C18 witness: of two balance calls one failed; the other, on a token of
\* 6 decimals, is reported as a success formatted with 18 decimals.
C18_Witness ==
    /\ OneBalanceFailed
    /\ Len(cbResults) = 2
    /\ cbResults[1].status = "error"
    /\ cbResults[2].status = "success"
    /\ OwnDecimals(cbResults[2].tokenAddress) = 6
    /\ cbResults[2].tokenDecimals = 18
    /\ cbResults[2].formattedBalance = <<"1", ".", "5", "e", "-", "1", "2">>
\* a holder address that is no address is listed on the page
BadHolderListed(page) ==
    \E i \in 1..Len(page.eoaAddresses) : ~IsAddress(page.eoaAddresses[i].address)

\* C19: when building a balance call of a batch throws because a holder
\* address is no address, checkBalances sets its error and that batch is
\* not handed to the aggregator: no submitted batch holds a call for such a
\* holder, and a run that came to build a batch with one ends in the error
\* state having submitted nothing.
C19_EncodingFailureSurfaced ==
    /\ \A i \in 1..Len(mcRequest.calls) :
           ~GenerateThrows("balanceOf", Tail(mcRequest.calls[i].callData))
    /\ ( /\ tbPc # "idle"
         /\ BadHolderListed(tbConfig)
         /\ NextChain(tbConfig.tokensByChain, 1) # 0 )
       => /\ tbPc = "error"
          /\ tbError = "Error checking balances: "
          /\ tbSubmitted = <<>>
          /\ mcPc = "idle"

\* a batch for a valid and an invalid holder was being built on the second
\* chain of the page when the error was set
C19_Witness ==
    /\ tbPc = "error"
    /\ tbError = "Error checking balances: "
    /\ Len(tbConfig.eoaAddresses) = 2
    /\ BadHolderListed(tbConfig)
    /\ tbChain = 2
    /\ Len(tbConfig.tokensByChain[2].tokens) = 2

\* the drain loops of App that have started and not ended
AppRunning == { L \in AppTokens : appLoop[L] \in {"fetching", "waiting"} }

\* the fetches of App that have not answered yet
AppInFlight == { L \in AppTokens : appLoop[L] = "fetching" }

\* C20: the inline queue of App runs one request at a time: at most one
\* drain loop runs, at most one fetch is in flight, and consecutive fetches
\* are at least one second apart.
C20_OneRequestAtATime ==
    /\ Cardinality(AppRunning) <= 1
    /\ Cardinality(AppInFlight) <= 1
    /\ appMinGap >= AppDelay

\* the effect has asked for two uncached tokens of a known chain in one pass
C20_Witness ==
    /\ appLoaded >= 2
    /\ appCache = {}
    /\ appLoop[1] = "fetching"
    /\ appLoop[2] = "fetching"

(***************************************************************************)
(* Properties of the metadata queue, continued.                            *)
(***************************************************************************)
\* the calls whose entry is in the queue q
QueuedIn(q) == { q[i].resolve : i \in 1..Len(q) }

\* the calls whose entry a drain loop with entries held holds
HeldIn(held) == { held[L].resolve : L \in CallIds } \ {NoEntry.resolve}

\* this step invokes the resolve callback of call c: the loop that fetched
\* its entry reaches the inter-request delay, or its entry leaves the queue
\* without being fetched
ResolveInvoked(c) ==
    \/ \E L \in CallIds :
           /\ loopEntry[L].resolve = c
           /\ loopPc[L] \in {"fetch", "json"}
           /\ loopPc'[L] = "delay"
    \/ /\ c \in QueuedIn(apiQueue) \cup (enqueued' \ enqueued)
       /\ c \notin QueuedIn(apiQueue')
       /\ c \notin HeldIn(loopEntry')

\* C21: a queue entry is consumed exactly once: resolve is invoked for it
\* only while its promise is pending (so at most once, and not by a 429
\* requeue, which leaves the promise pending and the entry queued once), the
\* promise is never rejected, and a resolved entry is neither in apiQueue
\* nor held by a loop.
C21_ConsumedOnce ==
    [][ \A c \in CallIds :
            /\ ResolveInvoked(c) => (result[c] = Pending /\ result'[c] # Pending)
            /\ result'[c] \in {Pending, Null} \cup Meta
            /\ (c \in enqueued' /\ result'[c] # Pending) =>
                   /\ c \notin QueuedIn(apiQueue')
                   /\ c \notin HeldIn(loopEntry')
            /\ (lastResponse'[c] = "429" /\ lastResponse[c] # "429") =>
                   /\ result'[c] = Pending
                   /\ Cardinality({ i \in 1..Len(apiQueue') : apiQueue'[i].resolve = c }) = 1
      ]_vars

\* C21 witness: an entry was throttled, fetched again and then resolved;
\* it is in the queue no more.
C21_Witness ==
    \E c \in enqueued :
        /\ fetches[c] = 2
        /\ lastResponse[c] = "parsed"
        /\ result[c] \in Meta
        /\ c \notin QueuedIn(apiQueue)

\* the answer to the fetch of loop L arrives, whatever it is
FetchCompletes(L) ==
    \/ RespondThrottled(L)
    \/ RespondOk(L)
    \/ RespondHttpError(L)
    \/ RespondNetworkError(L)

\* the body of the answer to loop L is read, or reading it fails
BodyCompletes(L) ==
    \/ \E m \in Meta : BodyParsed(L, m)
    \/ BodyThrows(L)

\* every fetch and every body read completes, every timer runs out
Fairness ==
    /\ \A L \in CallIds : WF_vars(FetchCompletes(L))
    /\ \A L \in CallIds : WF_vars(BodyCompletes(L))
    /\ \A L \in CallIds : WF_vars(TimerFires(L))
    /\ WF_vars(Tick)

\* the metadata queue under fairness, 429 answers without bound
SpecLive == SpecUnbounded /\ Fairness

\* this step is a 429 answer
ThrottleStep == \E L \in CallIds : loopPc[L] = "fetch" /\ loopPc'[L] = "backoff"

\* this step handles an answer to a fetch other than 429, or its body
OtherAnswerStep ==
    \E L \in CallIds :
        /\ loopPc[L] \in {"fetch", "json"}
        /\ loopPc'[L] \in {"json", "delay"}
        /\ loopPc'[L] # loopPc[L]

\* the promise of call c is pending and its entry was fetched and is being
\* retried, or waits behind an entry that is
BehindThrottled(c) ==
    /\ c \in enqueued
    /\ result[c] = Pending
    /\ \E d \in enqueued : d <= c /\ fetches[d] > 0 /\ result[d] = Pending

\* C22: under fairness, if there are only finitely many 429 answers every
\* promise fetchTokenData returned is eventually resolved with a token
\* object or null; and a fetched entry, or an entry behind it, is resolved
\* only by a step that handles an answer other than 429, so that with 429
\* answers for ever neither is ever resolved.
C22_ResolvesUnless429Forever ==
    /\ (<>[][~ThrottleStep]_vars) =>
           \A c \in CallIds : (c \in Made) ~> (result[c] \in Meta \cup {Null})
    /\ [][ \A c \in CallIds :
               (BehindThrottled(c) /\ result'[c] # Pending) => OtherAnswerStep
         ]_vars

\* C22 witness: a call whose entry waited behind a throttled entry was
\* resolved after that entry's retry.
C22_Witness ==
    \E c \in enqueued :
        /\ c > 1
        /\ throttles >= 1
        /\ fetches[c] >= 1
        /\ result[c] # Pending


\* C23: the service goes idle -> draining -> idle and strands no entry:
\* isProcessingQueue is true exactly while a drain loop is active, the queue
\* is empty whenever no loop is active, and a fetchTokenData call for an
\* uncached key made while the service is idle starts a drain that shifts
\* its entry off in the same step.
C23_IdleDrainingIdle ==
    [][ /\ isProcessingQueue' <=> (ActiveLoops' # {})
        /\ (ActiveLoops' = {}) => (apiQueue' = <<>>)
        /\ \A c \in CallIds :
               (c \in enqueued' /\ c \notin enqueued /\ ~isProcessingQueue) =>
                   /\ c \in popped'
                   /\ (result'[c] = Pending => loopPc'[c] = "fetch")
      ]_vars

\* C23 witness: the first drain has ended and the service was idle; a later
\* call for an uncached key started a drain of its own.
C23_Witness ==
    \E c \in enqueued :
        /\ c > 1
        /\ loopPc[1] = "returned"
        /\ 1 \in popped
        /\ result[1] # Pending
        /\ loopPc[c] = "fetch"
        /\ isProcessingQueue

\* an entry enqueued while the loop waits out its inter-request delay is
\* still queued, with the loop active
C23_WitnessDelay ==
    \E L \in CallIds :
        /\ loopPc[L] = "delay"
        /\ Len(apiQueue) > 0
        /\ \A i \in 1..Len(apiQueue) : fetches[apiQueue[i].resolve] = 0

\* this step shifts the entry of call c off the queue
ShiftedOff(c) ==
    /\ c \in QueuedIn(apiQueue) \cup (enqueued' \ enqueued)
    /\ c \notin QueuedIn(apiQueue')

\* C24: when the drain loop shifts off an entry whose key is cached by then,
\* the entry is resolved with the cached value in that step, no fetch is
\* issued for it, and the loop neither holds it nor starts a timer.
C24_CachedDuplicate ==
    [][ \A c \in enqueued' :
            LET key == CacheKey(callChain'[c], callAddress'[c])
            IN  (ShiftedOff(c) /\ cache[key] # Absent) =>
                /\ result'[c] = cache[key]
                /\ fetches'[c] = fetches[c]
                /\ c \notin HeldIn(loopEntry')
                /\ \A L \in CallIds : loopPc'[L] \notin {"backoff", "delay"}
      ]_vars

\* C24 witness: a second call for a key was enqueued before the first was
\* resolved, and was resolved with the token object without a fetch.
C24_Witness ==
    \E c \in popped :
        /\ c > 1
        /\ fetches[c] = 0
        /\ result[c] \in Meta
        /\ result[c] = result[1]
        /\ KeyOfCall(c) = KeyOfCall(1)

\* calls c and d were made for the same cache key
SameKey(c, d) == c \in Made /\ d \in Made /\ KeyOfCall(c) = KeyOfCall(d)

\* C25 as stated: two calls for the same uncached key on a mapped chain
\* that both pushed an entry are each resolved by a fetch of their own.
C25_SeparateFetches ==
    \A c, d \in enqueued :
        ( /\ c < d
          /\ SameKey(c, d)
          /\ HasPlatform(callChain[c])
          /\ result[c] # Pending
          /\ result[d] # Pending )
        => (fetches[c] >= 1 /\ fetches[d] >= 1)

\* C25 amended: a call for an uncached key pushes an entry of its own even
\* when an unresolved entry for the same key exists, but a fetch is issued
\* for an entry only if its key is not cached when the entry is shifted off.
C25_SeparateEntries ==
    [][ \A d \in CallIds :
            /\ ( /\ IsCallStep
                 /\ d = nextCall
                 /\ cache[CacheKey(callChain'[d], callAddress'[d])] = Absent
                 /\ \E c \in enqueued : /\ result[c] = Pending
                                        /\ callChain[c] = callChain'[d]
                                        /\ ToLowerCase(callAddress[c])
                                               = ToLowerCase(callAddress'[d]) )
               => /\ d \in enqueued'
                  /\ Cardinality({ i \in 1..Len(apiQueue') :
                                      apiQueue'[i].resolve = d }) = 1
            /\ (d \in enqueued' /\ IssuesFetch(d)) =>
                   cache[CacheKey(callChain'[d], callAddress'[d])] = Absent
      ]_vars

\* C25 witness: two calls for one key were queued together; the first was
\* fetched, the second was resolved with its value without a fetch.
C25_Witness ==
    \E c, d \in enqueued :
        /\ c < d
        /\ SameKey(c, d)
        /\ HasPlatform(callChain[c])
        /\ fetches[c] >= 1
        /\ fetches[d] = 0
        /\ result[d] # Pending
        /\ writes[KeyOfCall(c)] = 1

(***************************************************************************)
(* Properties of the pages, continued.                                     *)
(***************************************************************************)
\* the configured calls whose calldata went into the batch, in batch order
SubmittedCalls(configured) ==
    SelectSeq(configured, LAMBDA c : GetMethod(c.abiType, c.methodName))

\* the Result of the node that decodedResults[i] was made from
ItemOf(decoded) == [success |-> decoded.success, returnData |-> decoded.returnData[2]]

\* C26: executeMulticall decodes result i with the method of the configured
\* call whose calldata is at position i of the submitted batch.
C26_DecodedWithSubmittedCall ==
    emPc = "returned" =>
        /\ Len(emResults) = Len(emRequest.calls)
        /\ \A i \in 1..Len(emResults) :
               emResults[i] = DecodeReturnData(ItemOf(emResults[i]), i - 1,
                                               SubmittedCalls(emConfig.calls)[i])

\* C26 witness: the first configured call has no method and was skipped;
\* the one result, which the node returned for the second call, was left
\* undecoded.
C26_Witness ==
    /\ emPc = "returned"
    /\ Len(emConfig.calls) = 2
    /\ emConfig.calls[1].methodName = NoMethod
    /\ Len(emRequest.calls) = 1
    /\ emResults[1].success
    /\ emResults[1].returnData[1] = "raw"


\* allCalls[index] (indices from 0) is the call of method on token with the
\* given parameters
CallAt(index, method, token, parameters) ==
    /\ index + 1 \in 1..Len(cbCalls)
    /\ cbCalls[index + 1].methodName = method
    /\ cbCalls[index + 1].target = token
    /\ cbCalls[index + 1].parameters = parameters
    /\ cbCalls[index + 1].callData = GenerateCallData(method, parameters)

BatchThrew == tbPc = "awaiting" /\ mcPc = "thrown"

\* C28: when makeMulticall throws for the batch of a chain, checkBalances
\* sets the error the user sees, and the results of the chains whose
\* batches succeeded are kept and reported once the loop is over.
C28_BatchFailureSurfaced ==
    /\ [][ BatchThrew => (tbError' # "" /\ tbAll' = tbAll) ]_vars
    /\ [](tbPc = "done" =>
              tbBalanceResults = GroupedResults(tbConfig.eoaAddresses, tbAll))

\* checkBalances is over with no error set: the batch of the first chain
\* returned and its results are reported, the batch of the second chain
\* threw
C28_Witness ==
    /\ tbPc = "done"
    /\ mcPc = "thrown"
    /\ tbError = ""
    /\ tbSubmitted = <<1, 2>>
    /\ tbAll # <<>>
    /\ \E i \in 1..Len(tbBalanceResults) : tbBalanceResults[i].tokens # <<>>

\* the info calls of the token of entry i of tokenInfoMap that the node
\* failed or answered with bytes that do not decode
FailedInfoCalls(i) ==
    { index \in {cbTokenInfoMap[i].nameIndex, cbTokenInfoMap[i].symbolIndex,
                 cbTokenInfoMap[i].decimalsIndex} :
          \/ ~mcNode[index + 1].success
          \/ mcNode[index + 1].returnData = "0x" }

\* the values checkAllBalances puts in place of token information it could
\* not read
Substituted(record) ==
    \/ record.tokenName = <<"Unknown">>
    \/ record.tokenSymbol = <<"UNK">>
    \/ record.tokenDecimals = DefaultDecimals

\* C29: when the name, symbol or decimals call of a token failed or could
\* not be decoded, checkAllBalances makes the failure visible (the error is
\* set or the token's records carry the status error) and shows no record
\* of the token with 'Unknown', 'UNK' or 18 decimals as a successful one.
C29_NoSilentDefault ==
    cbPc = "done" =>
        \A i \in 1..Len(cbTokenInfoMap) :
            FailedInfoCalls(i) # {} =>
                \A k \in 1..Len(cbResults) :
                    cbResults[k].tokenAddress = cbTokenInfoMap[i].tokenAddress =>
                        /\ cbError # "" \/ cbResults[k].status = "error"
                        /\ ~(cbResults[k].status = "success" /\ Substituted(cbResults[k]))

\* the decimals call of tokenA (6 decimals) failed, no error is set, and
\* a balance of tokenA is shown as a success with 18 decimals
C29_Witness ==
    /\ cbPc = "done"
    /\ cbError = ""
    /\ \E i \in 1..Len(cbTokenInfoMap) :
           /\ cbTokenInfoMap[i].tokenAddress = "tokenA"
           /\ FailedInfoCalls(i) = {cbTokenInfoMap[i].decimalsIndex}
           /\ ~mcNode[cbTokenInfoMap[i].decimalsIndex + 1].success
    /\ \E k \in 1..Len(cbResults) :
           /\ cbResults[k].tokenAddress = "tokenA"
           /\ cbResults[k].status = "success"
           /\ cbResults[k].tokenDecimals = DefaultDecimals
           /\ cbResults[k].tokenName # <<"Unknown">>

\* the first platform of the response whose contract_address is the
\* requested address up to case, 0: none
MatchedPlatform ==
    IF ~ptData.hasDetailPlatforms THEN 0
    ELSE LET matching == { i \in DOMAIN ptData.detail_platforms :
                             ToLowerCase(ptData.detail_platforms[i].contract_address)
                                 = ToLowerCase(ptAddress) }
         IN  IF matching = {} THEN 0
             ELSE CHOOSE i \in matching : \A j \in matching : i <= j

\* C30: parseTokenData returns as decimals the decimal_place reported for
\* the platform whose contract_address is the requested address up to
\* case, whatever the value, 0 included; it returns 18 only when no
\* platform matches or the matching one reports no decimal_place; and
\* contractAddress of the result is the requested address in lower case.
C30_ReportedDecimals ==
    ptPc = "done" =>
        /\ ptOut.contractAddress = ToLowerCase(ptAddress)
        /\ IF MatchedPlatform # 0
              /\ ptData.detail_platforms[MatchedPlatform].decimal_place # <<>>
           THEN ptOut.decimals = ptData.detail_platforms[MatchedPlatform].decimal_place[1]
           ELSE ptOut.decimals = FallbackDecimals

\* the address a, b was asked for, the response lists it as A, b on a
\* platform with decimal_place 0, and the result says 18 decimals
C30_Witness ==
    /\ ptPc = "done"
    /\ ptAddress = <<"a", "b">>
    /\ MatchedPlatform # 0
    /\ ptData.detail_platforms[MatchedPlatform].contract_address = <<"A", "b">>
    /\ ptData.detail_platforms[MatchedPlatform].decimal_place = <<0>>
    /\ ptOut.chainName = ptData.detail_platforms[MatchedPlatform].key
    /\ ptOut.decimals = FallbackDecimals
    /\ ptOut.contractAddress = <<"a", "b">>
=============================================================================
